---------------------------- MODULE Spec2Model ----------------------------
(***************************************************************************)
(* A model of the table-reconstruction core of inpi-bilans2                *)
(* (src/src/extraction.py, class TableExtractor) and of the page parsing   *)
(* that feeds it (src/src/worker_lightweight.py, process_batch).           *)
(*                                                                         *)
(* Conventions                                                             *)
(*   - a text is a sequence of one-character strings; the letter a with a  *)
(*     circumflex is written "a^"; Python's None in place of a text is     *)
(*     NoneText;                                                           *)
(*   - a fragment (text block) is a record with the optional fields text   *)
(*     and bbox; bbox is a sequence of points <<x, y>>; a coordinate that  *)
(*     is None is NoneNum;                                                 *)
(*   - the vertical centre (y0 + y2) / 2 of a fragment is kept doubled     *)
(*     (Center2 = y0 + y2) so that all arithmetic stays in the integers;   *)
(*     every comparison of centres doubles its threshold accordingly;      *)
(*   - an operation that can raise returns [exc |-> kind, val |-> value];  *)
(*     exc = "none" means it returned normally.                            *)
(***************************************************************************)
EXTENDS Integers, Sequences, FiniteSets, TLC

(***************************************************************************)
(* Program constants                                                       *)
(***************************************************************************)
row_threshold == 10
table_gap_threshold == 60
MinTableRows == 3
MaxColumns == 8
AlignTolerance == 40
ConstructTolerance == 50
ExistingTolerance == 30
ConstructMaxDistance == 200
TinyGap == 20
MinClusterThreshold == 50
MaxClusterThreshold == 200
BucketWidth == 10

(***************************************************************************)
(* Python values                                                           *)
(***************************************************************************)
NoneNum == 0 - 999999
NoneText == <<"None">>
IsNum(v) == v # NoneNum
IsStr(t) == t # NoneText
Abs(n) == IF n < 0 THEN 0 - n ELSE n
Min2(a, b) == IF b < a THEN b ELSE a
Max2(a, b) == IF b > a THEN b ELSE a

OK(v) == [exc |-> "none", val |-> v]
Raise(kind) == [exc |-> kind, val |-> <<>>]

RECURSIVE SumSeq(_)
SumSeq(s) == IF s = <<>> THEN 0 ELSE Head(s) + SumSeq(Tail(s))

RECURSIVE Concat(_)
Concat(ss) == IF ss = <<>> THEN <<>> ELSE Head(ss) \o Concat(Tail(ss))

(* sorted(s, key=Key): Python's sort is stable, so an element's place is   *)
(* the number of elements that go before it: smaller key, or equal key and *)
(* earlier in s.                                                           *)
StableSort(s, Key(_)) ==
    LET n == Len(s)
        keys == [i \in 1..n |-> Key(s[i])]
        rank == [i \in 1..n |->
                    Cardinality({j \in 1..n : \/ keys[j] < keys[i]
                                              \/ keys[j] = keys[i] /\ j < i}) + 1]
    IN  [k \in 1..n |-> s[CHOOSE i \in 1..n : rank[i] = k]]

(***************************************************************************)
(* Characters and texts: str.isdigit, str.isalpha, str.lower, str.strip,   *)
(* the substring test `in` and the regular expressions of the source.      *)
(***************************************************************************)
Digits == {"0","1","2","3","4","5","6","7","8","9"}
LowerLetters == {"a","b","c","d","e","f","g","h","i","j","k","l","m","n","o","p","q","r","s","t","u","v","w","x","y","z","a^"}
UpperLetters == {"A","B","C","D","E","F","G","H","I","J","K","L","M","N","O","P","Q","R","S","T","U","V","W","X","Y","Z"}
UpperSeq == <<"A","B","C","D","E","F","G","H","I","J","K","L","M","N","O","P","Q","R","S","T","U","V","W","X","Y","Z">>
LowerSeq == <<"a","b","c","d","e","f","g","h","i","j","k","l","m","n","o","p","q","r","s","t","u","v","w","x","y","z">>
Whitespace == {" "}

IsDigit(c) == c \in Digits
IsAlpha(c) == c \in LowerLetters \cup UpperLetters
IsWordChar(c) == IsDigit(c) \/ IsAlpha(c) \/ c = "_"
IsSpace(c) == c \in Whitespace

UpperToLower ==
    [c \in UpperLetters |-> LowerSeq[CHOOSE i \in 1..Len(UpperSeq) : UpperSeq[i] = c]]
LowerChar(c) == IF c \in UpperLetters THEN UpperToLower[c] ELSE c
Lower(t) == [i \in 1..Len(t) |-> LowerChar(t[i])]

Strip(t) ==
    LET keep == {i \in 1..Len(t) : ~IsSpace(t[i])}
    IN  IF keep = {} THEN <<>>
        ELSE LET lo == CHOOSE i \in keep : \A j \in keep : i <= j
                 hi == CHOOSE i \in keep : \A j \in keep : i >= j
             IN  SubSeq(t, lo, hi)

AnyChar(t, P(_)) == \E i \in 1..Len(t) : P(t[i])
CountChars(t, P(_)) == Cardinality({i \in 1..Len(t) : P(t[i])})

(* kw in t *)
Contains(t, kw) ==
    \E i \in 1..(Len(t) - Len(kw) + 1) : \A j \in 1..Len(kw) : t[i + j - 1] = kw[j]

(* " ".join(texts) *)
RECURSIVE JoinSpace(_)
JoinSpace(texts) ==
    IF texts = <<>> THEN <<>>
    ELSE IF Len(texts) = 1 THEN texts[1]
    ELSE texts[1] \o <<" ">> \o JoinSpace(Tail(texts))

CharAt(t, i, c) == i \in 1..Len(t) /\ t[i] = c
DigitsAt(t, i, n) == \A k \in 0..(n - 1) : (i + k) \in 1..Len(t) /\ IsDigit(t[i + k])

(* \d{1,2}<sep>\d{1,2}<sep>\d{ylen} matched at position i: the length of   *)
(* the match, 0 when there is none.  The greedy \d{1,2} backtracks from    *)
(* two digits to one.                                                      *)
DayMonthYearAt(t, i, sep, ylen) ==
    LET Try(a, b) == /\ DigitsAt(t, i, a)
                     /\ CharAt(t, i + a, sep)
                     /\ DigitsAt(t, i + a + 1, b)
                     /\ CharAt(t, i + a + 1 + b, sep)
                     /\ DigitsAt(t, i + a + b + 2, ylen)
    IN  CASE Try(2, 2) -> 6 + ylen
          [] Try(2, 1) -> 5 + ylen
          [] Try(1, 2) -> 5 + ylen
          [] Try(1, 1) -> 4 + ylen
          [] OTHER -> 0

(* \d{1,2}/\d{4} matched at position i *)
MonthYearAt(t, i) ==
    \E a \in {1, 2} : DigitsAt(t, i, a) /\ CharAt(t, i + a, "/") /\ DigitsAt(t, i + a + 1, 4)

(* \b(19|20)\d{2}\b matched at position i *)
YearAt(t, i) ==
    /\ i + 3 <= Len(t)
    /\ \/ t[i] = "1" /\ t[i + 1] = "9"
       \/ t[i] = "2" /\ t[i + 1] = "0"
    /\ DigitsAt(t, i + 2, 2)
    /\ i = 1 \/ ~IsWordChar(t[i - 1])
    /\ i + 3 = Len(t) \/ ~IsWordChar(t[i + 4])

(* exercice\s+n(?:-\d)? matched at position i *)
ExerciceAt(t, i) ==
    /\ i + 7 <= Len(t)
    /\ SubSeq(t, i, i + 7) = <<"e","x","e","r","c","i","c","e">>
    /\ \E k \in 1..Len(t) :
          /\ \A j \in 1..k : (i + 7 + j) \in 1..Len(t) /\ IsSpace(t[i + 7 + j])
          /\ CharAt(t, i + 8 + k, "n")

(* n-\d matched at position i *)
NMinusAt(t, i) == CharAt(t, i, "n") /\ CharAt(t, i + 1, "-") /\ DigitsAt(t, i + 2, 1)

HasYear(t) == \E i \in 1..Len(t) : YearAt(t, i)
HasDate(t) == \E i \in 1..Len(t) : DayMonthYearAt(t, i, "/", 4) > 0

(* re.sub(pattern, '', t): the leftmost matches, not overlapping, removed  *)
RECURSIVE SubDatesFrom(_, _)
SubDatesFrom(t, i) ==
    IF i > Len(t) THEN <<>>
    ELSE LET n == DayMonthYearAt(t, i, "/", 4)
         IN  IF n > 0 THEN SubDatesFrom(t, i + n)
             ELSE <<t[i]>> \o SubDatesFrom(t, i + 1)

RECURSIVE SubYearsFrom(_, _)
SubYearsFrom(t, i) ==
    IF i > Len(t) THEN <<>>
    ELSE IF YearAt(t, i) THEN SubYearsFrom(t, i + 4)
    ELSE <<t[i]>> \o SubYearsFrom(t, i + 1)

(***************************************************************************)
(* Fragments                                                               *)
(***************************************************************************)
HasText(b) == "text" \in DOMAIN b
HasBBox(b) == "bbox" \in DOMAIN b
LeftX(b) == b.bbox[1][1]
Center2(b) == b.bbox[1][2] + b.bbox[3][2]

(* what evaluating (b['bbox'][0][1] + b['bbox'][2][1]) / 2 raises *)
CenterFault(b) ==
    CASE ~HasBBox(b) -> "KeyError"
      [] Len(b.bbox) < 3 -> "IndexError"
      [] ~IsNum(b.bbox[1][2]) \/ ~IsNum(b.bbox[3][2]) -> "TypeError"
      [] OTHER -> "none"

(* what evaluating block['text'].lower() raises *)
TextFault(b) ==
    CASE ~HasText(b) -> "KeyError"
      [] ~IsStr(b.text) -> "AttributeError"
      [] OTHER -> "none"

(* the first fault, in sequence order, of Fault over s *)
FirstFault(s, Fault(_)) ==
    LET bad == {i \in 1..Len(s) : Fault(s[i]) # "none"}
    IN  IF bad = {} THEN "none"
        ELSE Fault(s[CHOOSE i \in bad : \A j \in bad : i <= j])

(***************************************************************************)
(* RowGrouper: TableExtractor._group_into_rows                             *)
(***************************************************************************)
(* variant: the row is appended as scanned, the sort by x left out          *)
SortRowByXUnsorted(row) == OK(row)

(* sorted(current_row, key=left x): comparing None with a number raises    *)
SortRowByX(row) ==
    IF Len(row) >= 2 /\ \E i \in 1..Len(row) : ~IsNum(LeftX(row[i]))
    THEN Raise("TypeError")
    ELSE OK(StableSort(row, LeftX))

(* variant: a block is compared with the first block of the running row    *)
RECURSIVE ScanRowsAnchored(_, _, _, _)
ScanRowsAnchored(sorted_blocks, i, current_row, rows) ==
    IF i > Len(sorted_blocks)
    THEN LET last == SortRowByX(current_row)
         IN  IF last.exc # "none" THEN last ELSE OK(Append(rows, last.val))
    ELSE IF Abs(Center2(sorted_blocks[i]) - Center2(current_row[1])) <= 2 * row_threshold
    THEN ScanRowsAnchored(sorted_blocks, i + 1, Append(current_row, sorted_blocks[i]), rows)
    ELSE LET closed == SortRowByX(current_row)
         IN  IF closed.exc # "none" THEN closed
             ELSE ScanRowsAnchored(sorted_blocks, i + 1, <<sorted_blocks[i]>>,
                                   Append(rows, closed.val))

RECURSIVE ScanRows(_, _, _, _)
ScanRows(sorted_blocks, i, current_row, rows) ==
    IF i > Len(sorted_blocks)
    THEN LET last == SortRowByX(current_row)
         IN  IF last.exc # "none" THEN last ELSE OK(Append(rows, last.val))
    ELSE LET block == sorted_blocks[i]
             current_y2 == Center2(block)
             prev_y2 == Center2(current_row[Len(current_row)])
         IN  IF Abs(current_y2 - prev_y2) <= 2 * row_threshold
             THEN ScanRows(sorted_blocks, i + 1, Append(current_row, block), rows)
             ELSE LET closed == SortRowByX(current_row)
                  IN  IF closed.exc # "none" THEN closed
                      ELSE ScanRows(sorted_blocks, i + 1, <<block>>, Append(rows, closed.val))

GroupIntoRows(text_blocks) ==
    IF text_blocks = <<>> THEN OK(<<>>)
    ELSE IF FirstFault(text_blocks, CenterFault) # "none"
    THEN Raise(FirstFault(text_blocks, CenterFault))
    ELSE LET sorted_blocks == StableSort(text_blocks, Center2)
         IN  ScanRows(sorted_blocks, 2, <<sorted_blocks[1]>>, <<>>)

(***************************************************************************)
(* RowClassifier: _is_header_row and _is_financial_row                     *)
(***************************************************************************)
HeaderRowKeywords ==
    << <<"a","c","t","i","f">>,
       <<"p","a","s","s","i","f">>,
       <<"t","o","t","a","l">>,
       <<"b","r","u","t">>,
       <<"a","m","o","r","t","i","s","s","e","m","e","n","t">>,
       <<"a","m","o","r","t">>,
       <<"n","e","t">>,
       <<"e","x","e","r","c","i","c","e">>,
       <<"c","a","p","i","t","a","l">>,
       <<"r","e","s","e","r","v","e","s">>,
       <<"r","e","s","u","l","t","a","t">>,
       <<"c","h","a","r","g","e","s">>,
       <<"p","r","o","d","u","i","t","s">>,
       <<"e","x","p","l","o","i","t","a","t","i","o","n">>,
       <<"f","i","n","a","n","c","i","e","r">>,
       <<"m","o","n","t","a","n","t">>,
       <<"d","a","t","e">>,
       <<"l","i","b","e","l","l","e">>,
       <<"c","o","m","p","t","e">>,
       <<"d","e","p","r","e","c">>,
       <<"n","-","1">>,
       <<"n","+","1">>,
       <<"2","0","2","3">>,
       <<"2","0","2","2">>,
       <<"2","0","2","4">>,
       <<"2","0","2","1">> >>

(* the row's texts are all strings here: the caller checks TextFault first *)
IsHeaderRow(row) ==
    LET text_content == JoinSpace([i \in 1..Len(row) |-> Lower(row[i].text)])
        has_year == HasYear(text_content)
        has_date == HasDate(text_content)
        has_keyword == \E k \in 1..Len(HeaderRowKeywords) :
                           Contains(text_content, HeaderRowKeywords[k])
        clean_dates == SubDatesFrom(text_content, 1)
        clean_text == SubYearsFrom(clean_dates, 1)
        num_chars == CountChars(clean_text, IsDigit)
        text_chars == CountChars(clean_text, IsAlpha)
        is_mostly_text == 2 * text_chars > 3 * num_chars
    IN  (has_keyword \/ has_year \/ has_date) /\ (is_mostly_text \/ Len(row) <= 4)

(* _is_header_row(row) with what it raises on a text that is no string *)
IsHeaderRowChecked(row) ==
    IF FirstFault(row, TextFault) # "none"
    THEN Raise(FirstFault(row, TextFault))
    ELSE OK(IsHeaderRow(row))

(* variant: a text of two letters counts as text                           *)
IsFinancialRowTwoLetters(row) ==
    /\ Len(row) >= 1
    /\ \E i \in 1..Len(row) :
          \/ AnyChar(row[i].text, IsDigit)
          \/ CountChars(row[i].text, IsAlpha) >= 2

(* num_count of the source is computed and never read: it is left out *)
IsFinancialRow(row) ==
    LET BlockHasNumber(b) == AnyChar(b.text, IsDigit)
        BlockHasText(b) == ~BlockHasNumber(b) /\ AnyChar(b.text, IsAlpha) /\ Len(b.text) > 2
        has_number == \E i \in 1..Len(row) : BlockHasNumber(row[i])
        has_text == \E i \in 1..Len(row) : BlockHasText(row[i])
    IN  IF Len(row) < 1 THEN FALSE
        ELSE (has_text \/ has_number) /\ Len(row) >= 1

(***************************************************************************)
(* ColumnBoundaryDetector: _detect_column_boundaries                       *)
(***************************************************************************)
(* round(x / 10) * 10: Python rounds a half to the even neighbour *)
Bucket(x) ==
    LET q == x \div BucketWidth
        r == x % BucketWidth
    IN  IF 2 * r < BucketWidth THEN BucketWidth * q
        ELSE IF 2 * r > BucketWidth THEN BucketWidth * (q + 1)
        ELSE IF q % 2 = 0 THEN BucketWidth * q
        ELSE BucketWidth * (q + 1)

(* sorted(S) of a set of numbers *)
SortedSeq(S) ==
    LET n == Cardinality(S)
    IN  [k \in 1..n |-> CHOOSE v \in S : Cardinality({w \in S : w < v}) = k - 1]

(* x_position_counts.get(p, 0) *)
XPositionCount(blocks, p) ==
    Cardinality({i \in 1..Len(blocks) : Bucket(LeftX(blocks[i])) = p})

(* The products k = avg_gap * 0.6 that are whole numbers and that IEEE-754  *)
(* double arithmetic computes just below k, so that int() yields k - 1;     *)
(* listed for the range the clamp to [50, 200] can tell apart.              *)
PointSixShort ==
    {53, 56, 59, 62, 79, 82, 85, 88, 91, 94, 97, 100, 103, 106, 109, 112, 115,
     118, 121, 124, 127, 155, 158, 161, 164, 167, 170, 173, 176, 179, 182, 185,
     188, 191, 194, 197, 200}

(* int(avg_gap * 0.6) with avg_gap = sum(gaps) / len(gaps) *)
IntPointSixOfMean(total, count) ==
    LET k == (6 * total) \div (10 * count)
    IN  IF (6 * total) % (10 * count) = 0 /\ k \in PointSixShort THEN k - 1 ELSE k

(* variant: a gap of exactly TinyGap is kept                               *)
GapsKeepTiny(x_positions) ==
    LET all == [i \in 1..(Len(x_positions) - 1) |-> x_positions[i + 1] - x_positions[i]]
    IN  SelectSeq(all, LAMBDA gap : gap >= TinyGap)

(* gaps between consecutive x positions, the tiny ones dropped *)
Gaps(x_positions) ==
    LET all == [i \in 1..(Len(x_positions) - 1) |-> x_positions[i + 1] - x_positions[i]]
    IN  SelectSeq(all, LAMBDA gap : gap > TinyGap)

ClusterThreshold(x_positions) ==
    LET gaps == Gaps(x_positions)
    IN  IF gaps # <<>>
        THEN Max2(MinClusterThreshold,
                  Min2(MaxClusterThreshold, IntPointSixOfMean(SumSeq(gaps), Len(gaps))))
        ELSE MinClusterThreshold

(* min(current_cluster, key=lambda p: -count[p]): the first most frequent *)
ClusterRepresentative(current_cluster, blocks) ==
    current_cluster[CHOOSE i \in 1..Len(current_cluster) :
        /\ \A j \in 1..Len(current_cluster) :
              XPositionCount(blocks, current_cluster[j]) <= XPositionCount(blocks, current_cluster[i])
        /\ \A j \in 1..(i - 1) :
              XPositionCount(blocks, current_cluster[j]) < XPositionCount(blocks, current_cluster[i])]

RECURSIVE SweepClusters(_, _, _, _, _, _, _)
SweepClusters(x_positions, i, leftmost, cluster_threshold, current_cluster, clusters, blocks) ==
    IF i > Len(x_positions)
    THEN IF current_cluster # <<>>
         THEN Append(clusters, ClusterRepresentative(current_cluster, blocks))
         ELSE clusters
    ELSE LET x == x_positions[i]
         IN  IF Abs(x - leftmost) < cluster_threshold
             THEN SweepClusters(x_positions, i + 1, leftmost, cluster_threshold,
                                current_cluster, clusters, blocks)
             ELSE IF current_cluster = <<>>
                     \/ x - current_cluster[Len(current_cluster)] < cluster_threshold
             THEN SweepClusters(x_positions, i + 1, leftmost, cluster_threshold,
                                Append(current_cluster, x), clusters, blocks)
             ELSE SweepClusters(x_positions, i + 1, leftmost, cluster_threshold, <<x>>,
                                Append(clusters, ClusterRepresentative(current_cluster, blocks)),
                                blocks)

(* the 7 most frequent of other_cols, ties in ascending order (stable sort) *)
TopColumns(other_cols, x_positions, cluster_threshold, blocks) ==
    LET Freq(c) == SumSeq([k \in 1..Len(x_positions) |->
                        IF Abs(x_positions[k] - c) < cluster_threshold
                        THEN XPositionCount(blocks, x_positions[k]) ELSE 0])
        NegFreq(c) == 0 - Freq(c)
        by_freq == StableSort(other_cols, NegFreq)
        kept == SubSeq(by_freq, 1, Min2(MaxColumns - 1, Len(by_freq)))
    IN  SortedSeq({kept[k] : k \in 1..Len(kept)})

(* variant: the cap left out, every cluster is returned                    *)
CapColumnsUncapped(clusters, x_positions, cluster_threshold, blocks) == clusters

(* variant: the leftmost cluster competes on frequency like the others     *)
CapColumnsByFrequency(clusters, x_positions, cluster_threshold, blocks) ==
    IF Len(clusters) > MaxColumns
    THEN TopColumns(clusters, x_positions, cluster_threshold, blocks)
    ELSE clusters

CapColumns(clusters, x_positions, cluster_threshold, blocks) ==
    IF Len(clusters) > MaxColumns
    THEN <<clusters[1]>> \o TopColumns(Tail(clusters), x_positions, cluster_threshold, blocks)
    ELSE clusters

(* sorted(x_position_counts.keys()) *)
XPositions(blocks) == SortedSeq({Bucket(LeftX(blocks[i])) : i \in 1..Len(blocks)})

(* variant: no clustering, every x position is a boundary                  *)
ClustersOfEveryBucket(blocks) == XPositions(blocks)

(* clusters after `clusters = sorted(set(clusters))`, before the cap *)
ClustersOf(blocks) ==
    LET x_positions == XPositions(blocks)
        min_x == CHOOSE v \in {LeftX(blocks[i]) : i \in 1..Len(blocks)} :
                     \A i \in 1..Len(blocks) : v <= LeftX(blocks[i])
        leftmost == Bucket(min_x)
        cluster_threshold == ClusterThreshold(x_positions)
        swept == SweepClusters(x_positions, 1, leftmost, cluster_threshold,
                               <<>>, <<leftmost>>, blocks)
    IN  SortedSeq({swept[k] : k \in 1..Len(swept)})

DetectColumnBoundaries(self, table_rows) ==
    LET blocks == Concat(table_rows)
    IN  IF table_rows = <<>> THEN OK(<<>>)
        ELSE IF \E i \in 1..Len(blocks) : ~IsNum(LeftX(blocks[i])) THEN Raise("TypeError")
        ELSE IF blocks = <<>> THEN OK(<<>>)
        ELSE OK(CapColumns(ClustersOf(blocks), XPositions(blocks),
                           ClusterThreshold(XPositions(blocks)), blocks))

(***************************************************************************)
(* TableAssembler: _validate_table_structure and _group_rows_into_tables   *)
(***************************************************************************)
RowHasNumber(row) == \E i \in 1..Len(row) : AnyChar(row[i].text, IsDigit)

(* variant: rows of one fragment never make a table, digits or not         *)
ValidateMultiColumnOnly(table_rows) ==
    5 * Cardinality({i \in 1..Len(table_rows) : Len(table_rows[i]) >= 2}) >= Len(table_rows)

(* multi_column_rows < len * 0.2 and num_rows_with_numbers < len * 0.3 are *)
(* compared exactly: len * 0.2 and len * 0.3 are exact in double           *)
(* arithmetic whenever they are whole, for every len up to 300.            *)
ValidateTableStructure(table_rows) ==
    LET n == Len(table_rows)
        multi_column_rows == Cardinality({i \in 1..n : Len(table_rows[i]) >= 2})
        num_rows_with_numbers == Cardinality({i \in 1..n : RowHasNumber(table_rows[i])})
    IN  IF 5 * multi_column_rows < n
        THEN ~(10 * num_rows_with_numbers < 3 * n)
        ELSE TRUE

(* variant: the length test left out, a run only has to validate           *)
KeepTableAnyLength(current_table) == ValidateTableStructure(current_table)

(* variant: the length test off by one                                     *)
KeepTableTwoRows(current_table) ==
    Len(current_table) >= MinTableRows - 1 /\ ValidateTableStructure(current_table)

(* a closed run is kept when it is long enough and validates *)
KeepTable(current_table) ==
    Len(current_table) >= MinTableRows /\ ValidateTableStructure(current_table)

(* variant: the fragment counts are not compared                           *)
SameTableGapOnly(prev_row, current_row) ==
    Center2(current_row[1]) - Center2(prev_row[1]) <= 2 * table_gap_threshold

(* the gate that lets rows[i] join the run that ends with rows[i-1] *)
SameTable(prev_row, current_row) ==
    LET current_y2 == Center2(current_row[1])
        prev_y2 == Center2(prev_row[1])
        similar_structure == Abs(Len(current_row) - Len(prev_row)) <= 2
    IN  current_y2 - prev_y2 <= 2 * table_gap_threshold /\ similar_structure

RECURSIVE ScanTables(_, _, _, _)
ScanTables(rows, i, current_table, tables) ==
    IF i > Len(rows)
    THEN IF KeepTable(current_table) THEN Append(tables, current_table) ELSE tables
    ELSE IF SameTable(rows[i - 1], rows[i])
    THEN ScanTables(rows, i + 1, Append(current_table, rows[i]), tables)
    ELSE ScanTables(rows, i + 1, <<rows[i]>>,
                    IF KeepTable(current_table) THEN Append(tables, current_table) ELSE tables)

GroupRowsIntoTables(rows) ==
    IF rows = <<>> THEN <<>> ELSE ScanTables(rows, 2, <<rows[1]>>, <<>>)

(***************************************************************************)
(* HeaderMatcher: _find_matching_header and                                *)
(* _construct_header_from_aligned_text.  A header that is None is NoneRow. *)
(***************************************************************************)
NoneRow == <<>>

ConstructKeywords ==
    << <<"b","r","u","t">>,
       <<"n","e","t">>,
       <<"a","m","o","r","t","i","s","s","e","m","e","n","t">>,
       <<"d","e","p","r","e","c","i","a","t","i","o","n">>,
       <<"t","o","t","a","l">>,
       <<"m","o","n","t","a","n","t">> >>

(* re.search of one of date_patterns in text *)
MatchesDatePattern(text) ==
    \E i \in 1..Len(text) :
        \/ DayMonthYearAt(text, i, "/", 4) > 0
        \/ DayMonthYearAt(text, i, "/", 2) > 0
        \/ MonthYearAt(text, i)
        \/ DayMonthYearAt(text, i, "-", 4) > 0
        \/ DayMonthYearAt(text, i, "-", 2) > 0
        \/ DigitsAt(text, i, 4)
        \/ ExerciceAt(text, i)
        \/ NMinusAt(text, i)

IsHeaderText(block) ==
    LET text == Lower(Strip(block.text))
    IN  \/ MatchesDatePattern(text)
        \/ \E k \in 1..Len(ConstructKeywords) : Contains(text, ConstructKeywords[k])

AlignsWith(block_x, column_boundaries, tolerance) ==
    \E k \in 1..Len(column_boundaries) : Abs(block_x - column_boundaries[k]) < tolerance

(* the rows the construction looks at: above the table, at most 200px away *)
RowsAbove(all_rows, table_y2) ==
    SelectSeq(all_rows, LAMBDA row :
        /\ row # <<>>
        /\ Center2(row[1]) < table_y2
        /\ ~(table_y2 - Center2(row[1]) > 2 * ConstructMaxDistance))

RECURSIVE CollectHeaderBlocks(_, _, _, _)
CollectHeaderBlocks(blocks, i, column_boundaries, header_blocks) ==
    IF i > Len(blocks) THEN OK(header_blocks)
    ELSE LET block == blocks[i]
         IN  IF ~IsHeaderText(block) \/ column_boundaries = <<>>
             THEN CollectHeaderBlocks(blocks, i + 1, column_boundaries, header_blocks)
             ELSE IF ~IsNum(LeftX(block)) THEN Raise("TypeError")
             ELSE IF /\ AlignsWith(LeftX(block), column_boundaries, ConstructTolerance)
                     /\ ~\E h \in 1..Len(header_blocks) :
                            Abs(LeftX(header_blocks[h]) - LeftX(block)) < ExistingTolerance
             THEN CollectHeaderBlocks(blocks, i + 1, column_boundaries,
                                      Append(header_blocks, block))
             ELSE CollectHeaderBlocks(blocks, i + 1, column_boundaries, header_blocks)

ConstructHeaderFromAlignedText(self, all_rows, table, column_boundaries, table_y2) ==
    LET collected == CollectHeaderBlocks(Concat(RowsAbove(all_rows, table_y2)), 1,
                                         column_boundaries, <<>>)
    IN  IF collected.exc # "none" THEN collected
        ELSE IF Len(collected.val) >= 2 THEN collected
        ELSE OK(NoneRow)

(* alignment_score before it is divided by len(header) *)
AlignedCount(header, column_boundaries) ==
    Cardinality({i \in 1..Len(header) :
                    AlignsWith(LeftX(header[i]), column_boundaries, AlignTolerance)})

(* total_score = (aligned / len(header)) * 1 / (1 + (table_y - header_y) / 100) *)
(* as the fraction <<numerator, denominator>>, the denominator positive.        *)
(* The code computes the score in binary floating point; the two orders can     *)
(* differ only where a score is exactly 3/10 or two scores are equal fractions. *)
TotalScore(header, column_boundaries, table_y2) ==
    << 200 * AlignedCount(header, column_boundaries),
       Len(header) * (200 + (table_y2 - Center2(header[1]))) >>

ScoreGreater(s, t) == s[1] * t[2] > t[1] * s[2]

(* the headers the explicit search scores: not empty, above the table *)
CandidateHeaders(header_rows, table_y2) ==
    SelectSeq(header_rows, LAMBDA header : header # <<>> /\ Center2(header[1]) < table_y2)

(* best_header after the loop: the first header of the highest score,  *)
(* NoneRow when no score is above 0; with its score                    *)
BestHeader(header_rows, column_boundaries, table_y2) ==
    LET cands == CandidateHeaders(header_rows, table_y2)
        Score(i) == TotalScore(cands[i], column_boundaries, table_y2)
        best == {i \in 1..Len(cands) :
                    /\ ScoreGreater(Score(i), <<0, 1>>)
                    /\ \A j \in 1..Len(cands) : ~ScoreGreater(Score(j), Score(i))
                    /\ \A j \in 1..(i - 1) : ScoreGreater(Score(i), Score(j))}
    IN  IF best = {} THEN [header |-> NoneRow, score |-> <<0, 1>>]
        ELSE LET i == CHOOSE i \in best : TRUE
             IN  [header |-> cands[i], score |-> Score(i)]

(* variant: the best header is taken whatever its score                    *)
AcceptsAnyBest(best) == best.header # NoneRow

(* best_header and best_score > 0.3 *)
AcceptsHeader(best) == best.header # NoneRow /\ ScoreGreater(best.score, <<3, 10>>)

FindMatchingHeader(self, header_rows, table, column_boundaries, all_rows) ==
    IF table = <<>> THEN OK(NoneRow)
    ELSE LET table_y2 == Center2(table[1][1])
             cands == CandidateHeaders(header_rows, table_y2)
             best == BestHeader(header_rows, column_boundaries, table_y2)
         IN  IF /\ column_boundaries # <<>>
                /\ \E i \in 1..Len(cands) : \E k \in 1..Len(cands[i]) : ~IsNum(LeftX(cands[i][k]))
             THEN Raise("TypeError")
             ELSE IF AcceptsHeader(best) THEN OK(best.header)
             ELSE ConstructHeaderFromAlignedText(self, all_rows, table, column_boundaries, table_y2)

(***************************************************************************)
(* GridRenderer: _create_aligned_html_table.  The markup is a sequence of  *)
(* strings: a tag is one string, a cell's text its characters.             *)
(***************************************************************************)
(* variant: the last of the closest boundaries on a tie                    *)
ColumnIndexLastOnTie(block_x, column_boundaries) ==
    CHOOSE i \in 1..Len(column_boundaries) :
        /\ \A j \in 1..Len(column_boundaries) :
              Abs(block_x - column_boundaries[i]) <= Abs(block_x - column_boundaries[j])
        /\ \A j \in (i + 1)..Len(column_boundaries) :
              Abs(block_x - column_boundaries[j]) > Abs(block_x - column_boundaries[i])

(* the column of the boundary closest to block_x, the first one on a tie *)
ColumnIndex(block_x, column_boundaries) ==
    LET col_idx == CHOOSE i \in 1..Len(column_boundaries) :
            /\ \A j \in 1..Len(column_boundaries) :
                  Abs(block_x - column_boundaries[i]) <= Abs(block_x - column_boundaries[j])
            /\ \A j \in 1..(i - 1) :
                  Abs(block_x - column_boundaries[j]) > Abs(block_x - column_boundaries[i])
    IN  Min2(col_idx, Len(column_boundaries))

(* variant: a cell keeps only the last text put in it                      *)
RECURSIVE FillCellsOverwrite(_, _, _, _)
FillCellsOverwrite(sorted_blocks, i, column_boundaries, cells) ==
    IF i > Len(sorted_blocks) THEN cells
    ELSE FillCellsOverwrite(sorted_blocks, i + 1, column_boundaries,
             [cells EXCEPT ![ColumnIndex(LeftX(sorted_blocks[i]), column_boundaries)] =
                               sorted_blocks[i].text])

RECURSIVE FillCells(_, _, _, _)
FillCells(sorted_blocks, i, column_boundaries, cells) ==
    IF i > Len(sorted_blocks) THEN cells
    ELSE LET block == sorted_blocks[i]
             col_idx == ColumnIndex(LeftX(block), column_boundaries)
             filled == IF cells[col_idx] # <<>>
                       THEN cells[col_idx] \o <<" ">> \o block.text
                       ELSE block.text
         IN  FillCells(sorted_blocks, i + 1, column_boundaries,
                       [cells EXCEPT ![col_idx] = filled])

(* the cells of one row *)
RowCells(row, column_boundaries) ==
    FillCells(StableSort(row, LeftX), 1, column_boundaries,
              [k \in 1..Len(column_boundaries) |-> <<>>])

(* variant: the first row is tagged th whatever it holds                   *)
RowTagFirstRow(row_idx, row) == IF row_idx = 1 THEN "th" ELSE "td"

(* the tag of the cells of row row_idx (counted from 1) *)
RowTag(row_idx, row) == IF row_idx = 1 /\ IsHeaderRow(row) THEN "th" ELSE "td"

RowMarkup(row_idx, row, column_boundaries) ==
    LET tag == RowTag(row_idx, row)
        cells == RowCells(row, column_boundaries)
    IN  <<"<tr>">>
        \o Concat([k \in 1..Len(cells) |->
                     <<"<" \o tag \o ">">> \o cells[k] \o <<"</" \o tag \o ">">>])
        \o <<"</tr>">>

(* variant: the markup carries the id of the worker that rendered it       *)
CreateAlignedHtmlTableTagged(self, table_rows, column_boundaries) ==
    IF table_rows = <<>> \/ column_boundaries = <<>> THEN <<"<table></table>">>
    ELSE <<"<table>", self.worker_id>>
         \o Concat([r \in 1..Len(table_rows) |-> RowMarkup(r, table_rows[r], column_boundaries)])
         \o <<"</table>">>

CreateAlignedHtmlTable(self, table_rows, column_boundaries) ==
    IF table_rows = <<>> \/ column_boundaries = <<>> THEN <<"<table></table>">>
    ELSE <<"<table>">>
         \o Concat([r \in 1..Len(table_rows) |-> RowMarkup(r, table_rows[r], column_boundaries)])
         \o <<"</table>">>

(***************************************************************************)
(* The page parsing of LightweightOCRWorker.process_batch: the OCR         *)
(* engine's result for one page becomes the text_blocks handed to the      *)
(* extractor.  ocr_result is <<>> (nothing recognised) or <<result>>, the  *)
(* result in the new format (rec_texts, dt_polys, rec_scores) or the old   *)
(* one (items of box, text and confidence).                                *)
(***************************************************************************)
(* variant: `if text is not None`, an empty or blank text is kept          *)
KeepsTextNotNone(text) == text # NoneText

(* if text and text.strip() *)
KeepsText(text) == text # NoneText /\ text # <<>> /\ Strip(text) # <<>>

ParseNewFormat(result) ==
    LET texts == result.rec_texts
        boxes == result.dt_polys
        scores == result.rec_scores
        kept == SelectSeq([idx \in 1..Len(texts) |-> idx],
                          LAMBDA idx : KeepsText(texts[idx]) /\ idx <= Len(boxes))
    IN  [k \in 1..Len(kept) |->
            [text |-> texts[kept[k]], bbox |-> boxes[kept[k]],
             confidence |-> IF kept[k] <= Len(scores) THEN scores[kept[k]] ELSE 0]]

ParseOldFormat(result) ==
    LET kept == SelectSeq(result.items, LAMBDA item : KeepsText(item.text))
    IN  [k \in 1..Len(kept) |->
            [text |-> kept[k].text, bbox |-> kept[k].box, confidence |-> kept[k].confidence]]

ParseOcrResult(ocr_result) ==
    IF ocr_result = <<>> THEN <<>>
    ELSE IF ocr_result[1].format = "new" THEN ParseNewFormat(ocr_result[1])
    ELSE ParseOldFormat(ocr_result[1])

(***************************************************************************)
(* One call of extract_tables_from_page, step by step.  A call is a record *)
(* of its arguments, its local variables and its position pc; self is the  *)
(* TableExtractor it runs on.  text_blocks that is None is NoneBlocks.      *)
(***************************************************************************)
NoneBlocks == <<[none |-> TRUE]>>

(* the exception classes `except Exception` catches *)
ExceptionClasses == {"KeyError", "IndexError", "TypeError", "AttributeError"}
(* variant: `except KeyError`                                              *)
CatchesKeyErrorOnly(kind) == kind = "KeyError"
Catches(kind) == kind \in ExceptionClasses

NewCall(ext, via, ocr_result, text_blocks) ==
    [ext |-> ext, via |-> via, ocr_result |-> ocr_result, text_blocks |-> text_blocks,
     pc |-> IF via = "worker" THEN "parse" ELSE "call",
     rows |-> <<>>, header_rows |-> <<>>, data_rows |-> <<>>, data_tables |-> <<>>,
     table_idx |-> 0, column_boundaries |-> <<>>, matched_header |-> NoneRow,
     complete_tables |-> <<>>, boundaries_used |-> <<>>, tables_data |-> <<>>,
     cluster_threshold |-> 0, header_kind |-> "none", header_kinds |-> <<>>,
     exc |-> "none", warned |-> FALSE, result |-> <<>>]

Throw(r, kind) == [r EXCEPT !.pc = "except", !.exc = kind]

(* process_batch, lines 236-277: parse the OCR result, call the extractor *)
StepParse(r) == [r EXCEPT !.text_blocks = ParseOcrResult(r.ocr_result), !.pc = "call"]

(* extract_tables_from_page, and _detect_tables_from_coordinates up to try *)
StepEnter(r) ==
    IF r.text_blocks = NoneBlocks \/ r.text_blocks = <<>>
    THEN [r EXCEPT !.result = <<>>, !.pc = "done"]
    ELSE [r EXCEPT !.tables_data = <<>>, !.pc = "group"]

(* Step 1 *)
StepGroup(r) ==
    LET grouped == GroupIntoRows(r.text_blocks)
    IN  IF grouped.exc # "none" THEN Throw(r, grouped.exc)
        ELSE [r EXCEPT !.rows = grouped.val, !.pc = "classify"]

(* variant: a header-like row that is also financial is kept as data *)
DataRowsOfAllFinancial(rows) ==
    SelectSeq(rows, LAMBDA row : IsFinancialRow(row))

(* the elif branch of the classification: a header-like row is never data *)
DataRowsOf(rows) ==
    SelectSeq(rows, LAMBDA row : ~IsHeaderRow(row) /\ IsFinancialRow(row))

(* Step 2: the first row whose texts cannot be read raises *)
StepClassify(r) ==
    LET rows == r.rows
        bad == {i \in 1..Len(rows) : IsHeaderRowChecked(rows[i]).exc # "none"}
        header_rows == SelectSeq(rows, LAMBDA row : IsHeaderRow(row))
        data_rows == DataRowsOf(rows)
    IN  IF bad # {}
        THEN Throw(r, IsHeaderRowChecked(rows[CHOOSE i \in bad : \A j \in bad : i <= j]).exc)
        ELSE IF data_rows = <<>>
        THEN [r EXCEPT !.header_rows = header_rows, !.result = <<>>, !.pc = "done"]
        ELSE [r EXCEPT !.header_rows = header_rows, !.data_rows = data_rows,
                       !.pc = "assemble"]

(* Step 3 *)
StepAssemble(r) ==
    LET data_tables == GroupRowsIntoTables(r.data_rows)
    IN  [r EXCEPT !.data_tables = data_tables, !.table_idx = 1,
                  !.pc = IF data_tables = <<>> THEN "return" ELSE "columns"]

(* Step 4, one table of the loop: its column boundaries *)
StepColumns(self, r) ==
    LET found == DetectColumnBoundaries(self, r.data_tables[r.table_idx])
    IN  IF found.exc # "none" THEN Throw(r, found.exc)
        ELSE [r EXCEPT !.column_boundaries = found.val,
                       !.cluster_threshold =
                           ClusterThreshold(XPositions(Concat(r.data_tables[r.table_idx]))),
                       !.pc = "header"]

(* which return statement of _find_matching_header gave the header found: *)
(* the explicit best_header, the constructed header, or None               *)
HeaderKind(header_rows, table, column_boundaries, found) ==
    IF found = NoneRow THEN "none"
    ELSE IF AcceptsHeader(BestHeader(header_rows, column_boundaries, Center2(table[1][1])))
    THEN "explicit"
    ELSE "synthesized"

(* its header *)
StepHeader(self, r) ==
    LET found == FindMatchingHeader(self, r.header_rows, r.data_tables[r.table_idx],
                                    r.column_boundaries, r.rows)
    IN  IF found.exc # "none" THEN Throw(r, found.exc)
        ELSE [r EXCEPT !.matched_header = found.val,
                       !.header_kind = HeaderKind(r.header_rows, r.data_tables[r.table_idx],
                                                  r.column_boundaries, found.val),
                       !.pc = "render"]

(* its markup, appended to tables_data; complete_tables, boundaries_used    *)
(* and header_kinds record the complete_table, the column_boundaries and    *)
(* the origin of the header of each appended table                          *)
StepRender(self, r) ==
    LET table == r.data_tables[r.table_idx]
        complete_table == IF r.matched_header # NoneRow
                          THEN <<r.matched_header>> \o table
                          ELSE table
        html_table == CreateAlignedHtmlTable(self, complete_table, r.column_boundaries)
    IN  [r EXCEPT !.tables_data = Append(@, [html_structure |-> html_table]),
                  !.complete_tables = Append(@, complete_table),
                  !.boundaries_used = Append(@, r.column_boundaries),
                  !.header_kinds = Append(@, r.header_kind),
                  !.table_idx = @ + 1,
                  !.pc = IF r.table_idx < Len(r.data_tables) THEN "columns" ELSE "return"]

(* variant: the exception is logged and raised again                       *)
StepExceptReraise(r) == [r EXCEPT !.pc = "raised"]

(* except Exception as e: log a warning; then return tables_data.  An       *)
(* exception the clause does not catch leaves the call.                     *)
StepExcept(r) ==
    IF Catches(r.exc)
    THEN [r EXCEPT !.warned = TRUE, !.result = r.tables_data, !.pc = "done"]
    ELSE [r EXCEPT !.pc = "raised"]

(* return tables_data *)
StepReturn(r) == [r EXCEPT !.result = r.tables_data, !.pc = "done"]

StepCall(self, r) ==
    CASE r.pc = "parse" -> StepParse(r)
      [] r.pc = "call" -> StepEnter(r)
      [] r.pc = "group" -> StepGroup(r)
      [] r.pc = "classify" -> StepClassify(r)
      [] r.pc = "assemble" -> StepAssemble(r)
      [] r.pc = "columns" -> StepColumns(self, r)
      [] r.pc = "header" -> StepHeader(self, r)
      [] r.pc = "render" -> StepRender(self, r)
      [] r.pc = "except" -> StepExcept(r)
      [] r.pc = "return" -> StepReturn(r)
      [] OTHER -> r

(* the call run to its end *)
RECURSIVE RunCall(_, _)
RunCall(self, r) ==
    IF r.pc \in {"done", "raised"} THEN r ELSE RunCall(self, StepCall(self, r))

(* extract_tables_from_page(text_blocks, page_num) as a whole *)
ExtractTablesFromPage(self, text_blocks) ==
    RunCall(self, NewCall(self, "direct", <<>>, text_blocks))

VARIABLES
    extractor,   \* extractor[e]: the fields of TableExtractor instance e
    call,        \* call[c]: the call c of extract_tables_from_page
    worker,      \* the LightweightOCRWorker and the document it processes
    db,          \* the documents table and the row locks of open transactions
    pool         \* pool[w]: the position of worker process w in process_documents

vars == <<extractor, call, worker, db, pool>>

Self(c) == extractor[call[c].ext]

Calls == {1, 2}

(* process_batch parses the page's OCR result *)
ParsePage ==
    \E c \in Calls :
        /\ c \in DOMAIN call
        /\ call[c].pc = "parse"
        /\ call' = [call EXCEPT ![c] = StepParse(call[c])]
        /\ UNCHANGED <<extractor, worker, db, pool>>

(* extract_tables_from_page is entered *)
EnterCall ==
    \E c \in Calls :
        /\ c \in DOMAIN call
        /\ call[c].pc = "call"
        /\ call' = [call EXCEPT ![c] = StepEnter(call[c])]
        /\ UNCHANGED <<extractor, worker, db, pool>>

(* Step 1: _group_into_rows *)
GroupRows ==
    \E c \in Calls :
        /\ c \in DOMAIN call
        /\ call[c].pc = "group"
        /\ call' = [call EXCEPT ![c] = StepGroup(call[c])]
        /\ UNCHANGED <<extractor, worker, db, pool>>

(* Step 2: header rows and data rows *)
ClassifyRows ==
    \E c \in Calls :
        /\ c \in DOMAIN call
        /\ call[c].pc = "classify"
        /\ call' = [call EXCEPT ![c] = StepClassify(call[c])]
        /\ UNCHANGED <<extractor, worker, db, pool>>

(* Step 3: _group_rows_into_tables *)
AssembleTables ==
    \E c \in Calls :
        /\ c \in DOMAIN call
        /\ call[c].pc = "assemble"
        /\ call' = [call EXCEPT ![c] = StepAssemble(call[c])]
        /\ UNCHANGED <<extractor, worker, db, pool>>

(* Step 4: _detect_column_boundaries of the next table *)
DetectColumns ==
    \E c \in Calls :
        /\ c \in DOMAIN call
        /\ call[c].pc = "columns"
        /\ call' = [call EXCEPT ![c] = StepColumns(Self(c), call[c])]
        /\ UNCHANGED <<extractor, worker, db, pool>>

(* Step 4: _find_matching_header *)
MatchHeader ==
    \E c \in Calls :
        /\ c \in DOMAIN call
        /\ call[c].pc = "header"
        /\ call' = [call EXCEPT ![c] = StepHeader(Self(c), call[c])]
        /\ UNCHANGED <<extractor, worker, db, pool>>

(* Step 4: _create_aligned_html_table, tables_data.append *)
RenderTable ==
    \E c \in Calls :
        /\ c \in DOMAIN call
        /\ call[c].pc = "render"
        /\ call' = [call EXCEPT ![c] = StepRender(Self(c), call[c])]
        /\ UNCHANGED <<extractor, worker, db, pool>>

(* the except clause *)
HandleException ==
    \E c \in Calls :
        /\ c \in DOMAIN call
        /\ call[c].pc = "except"
        /\ call' = [call EXCEPT ![c] = StepExcept(call[c])]
        /\ UNCHANGED <<extractor, worker, db, pool>>

(* return tables_data *)
ReturnTables ==
    \E c \in Calls :
        /\ c \in DOMAIN call
        /\ call[c].pc = "return"
        /\ call' = [call EXCEPT ![c] = StepReturn(call[c])]
        /\ UNCHANGED <<extractor, worker, db, pool>>

Next ==
    \/ ParsePage
    \/ EnterCall
    \/ GroupRows
    \/ ClassifyRows
    \/ AssembleTables
    \/ DetectColumns
    \/ MatchHeader
    \/ RenderTable
    \/ HandleException
    \/ ReturnTables

(***************************************************************************)
(* The pages the model is run on.  A page is laid out in rows: an optional *)
(* header row, then one or two segments of rows of one template each, the  *)
(* rows of a segment 30px apart, the second segment a gap below the first. *)
(***************************************************************************)
MaxCount == 3

tActif == <<"A","c","t","i","f">>
tBrut == <<"B","r","u","t">>
tNet == <<"N","e","t">>
tTerrain == <<"T","e","r","r","a","i","n">>
tBatiments == <<"B","a^","t","i","m","e","n","t","s">>
tStocks == <<"S","t","o","c","k","s">>
tCreances == <<"C","r","e","a","n","c","e","s">>
t1000 == <<"1"," ","0","0","0">>
t800 == <<"8","0","0">>
t2500 == <<"2"," ","5","0","0">>
t2100 == <<"2"," ","1","0","0">>
t300 == <<"3","0","0">>
t250 == <<"2","5","0">>
t40 == <<"4","0">>
t35 == <<"3","5">>
tPage3 == <<"P","a","g","e"," ","3">>
t12500 == <<"1","2","5","0","0">>
t47000 == <<"4","7","0","0","0">>
t5 == <<"5">>
t7 == <<"7">>
tPassif == <<"P", "a", "s", "s", "i", "f">>
tEmpty == <<>>
tKg == <<"k","g">>
tXDashes == <<"x","-","-">>
tBlank == <<" ">>

Labels == <<tTerrain, tBatiments, tStocks, tCreances>>
ValuesA == <<t1000, t2500, t300, t40>>
ValuesB == <<t800, t2100, t250, t35>>
Pick(seq, k) == seq[((k - 1) % Len(seq)) + 1]

(* a well-formed fragment: text at left edge x, vertical centre y *)
Frag(text, x, y) ==
    LET x1 == IF x = NoneNum THEN NoneNum ELSE x + 40
    IN  [text |-> text,
         bbox |-> << <<x, y - 8>>, <<x1, y - 8>>, <<x1, y + 8>>, <<x, y + 8>> >>,
         confidence |-> 90]

(* row k of a segment of template t: its texts and left edges *)
RowTemplate(t, k) ==
    CASE t = "H" -> << <<tActif, 10>>, <<tBrut, 200>>, <<tNet, 350>> >>
      [] t = "D" -> << <<Pick(Labels, k), 10>>, <<Pick(ValuesA, k), 200>>, <<Pick(ValuesB, k), 350>> >>
      [] t = "N" -> << <<Pick(ValuesA, k), 200>> >>
      [] t = "L" -> << <<Pick(Labels, k), 10>> >>
      [] t = "S" -> IF k % 2 = 1 THEN << <<t47000, 350>> >> ELSE << <<t12500, 200>> >>
      [] t = "P" -> << <<tPage3, 10>> >>
      [] t = "M" -> << <<Pick(Labels, k), 10>>,
                       <<Pick(ValuesA, k), IF k % 2 = 1 THEN 230 ELSE 200>>,
                       <<Pick(ValuesB, k), 350>> >>
      [] t = "W" -> [j \in 1..9 |-> <<t5, 10 + 100 * (j - 1)>>]
      [] t = "V" -> [j \in 1..8 |-> <<t5, IF j < 5 THEN 10 + 100 * (j - 1) ELSE 10 + 100 * j>>]
      [] t = "Bx" -> << <<t5, NoneNum>> >>
      [] t = "H2" -> << <<tPassif, 10>>, <<tBrut, 200>>, <<tNet, 350>> >>
      [] t = "Ho" -> << <<tActif, 60>>, <<tBrut, 245>>, <<tNet, 395>> >>
      [] t = "Hp" -> << <<tPassif, 60>>, <<tBrut, 200>>, <<tNet, 395>> >>
      [] t = "Hb" -> << <<tActif, 50>>, <<tBrut, 240>>, <<tNet, 390>> >>
      [] t = "Hd" -> << <<tBrut, 160>>, <<tBrut, 240>> >>
      [] t = "Ht" -> << <<tActif, 10>>, <<tBrut, 105>>, <<tNet, 350>> >>
      [] t = "E" -> << <<Pick(Labels, k), 10>>, <<Pick(ValuesA, k), 200>>,
                       <<Pick(ValuesB, k), 200>> >>
      [] t = "Sa" -> << <<tKg, 10>> >>
      [] t = "Sb" -> << <<tXDashes, 10>> >>
      [] t = "Q" -> << <<Pick(Labels, k), 10>>, <<Pick(ValuesA, k), 200>>,
                       <<Pick(ValuesB, k), 350>>, <<t5, 500>> >>
      [] t = "U" -> [j \in 1..8 |-> <<t5, 10 + 100 * j>>]
      [] t = "G" -> << <<Pick(Labels, k), 10>>, <<Pick(ValuesA, k), 200>>,
                       <<Pick(ValuesB, k), 220>> >>

RowFrags(t, k, y) ==
    LET tpl == RowTemplate(t, k)
    IN  [i \in 1..Len(tpl) |-> Frag(tpl[i][1], tpl[i][2], y)]

Segment(t, n, y0) == Concat([k \in 1..n |-> RowFrags(t, k, y0 + 30 * (k - 1))])

PageOf(header, t1, n1, t2, n2, gap) ==
    LET y1 == IF header THEN 130 ELSE 100
        y2 == y1 + 30 * (n1 - 1) + gap
    IN  (IF header THEN RowFrags("H", 1, 100) ELSE <<>>)
        \o Segment(t1, n1, y1) \o Segment(t2, n2, y2)

Reverse(s) == [i \in 1..Len(s) |-> s[Len(s) + 1 - i]]

Gaps2 == {30, 120}

LaidOutPages ==
    {PageOf(h, t1, n1, "N", 0, 30) :
        h \in BOOLEAN, t1 \in {"D", "N", "L", "S", "P", "M"}, n1 \in 1..MaxCount}
    \cup
    {PageOf(h, t[1], n[1], t[2], n[2], gap) :
        h \in BOOLEAN, t \in {"D", "N", "L", "S", "P", "M"} \X {"D", "N", "L", "S", "Bx"},
        n \in (1..MaxCount) \X (1..MaxCount), gap \in Gaps2}

ReversedPages ==
    {Reverse(PageOf(h, t1, n1, "N", 0, 30)) :
        h \in BOOLEAN, t1 \in {"D", "N", "L", "S", "P", "M"}, n1 \in 1..MaxCount}

WidePages ==
    {PageOf(FALSE, "W", n1, "V", n2, gap) : n1 \in 1..MaxCount, n2 \in 0..MaxCount, gap \in Gaps2}

(* one or two header-like rows, aligned with the columns or off them, above *)
(* a table, and a header-like row below a table                             *)
HeaderTemplates == {"H", "H2", "Ho", "Hp", "Hb", "Hd"}

HeaderPages ==
    {RowFrags(a, 1, 100) \o Segment("D", MaxCount, 130) : a \in HeaderTemplates}
    \cup {RowFrags(a, 1, 100) \o RowFrags(b, 1, 130) \o Segment("D", MaxCount, 160) :
              a \in HeaderTemplates, b \in HeaderTemplates}
    \cup {Segment("D", MaxCount, 100) \o RowFrags("H", 1, 100 + 30 * MaxCount)}

(* rows printed on a slant: the three fragments of a row step down (dir = 1) *)
(* or up (dir = -1) by step from one column to the next; rows 60 apart       *)
SlantedRow(k, y, step, dir) ==
    << Frag(Pick(Labels, k), 10, y + (IF dir = 1 THEN 0 ELSE 2 * step)),
       Frag(Pick(ValuesA, k), 200, y + step),
       Frag(Pick(ValuesB, k), 350, y + (IF dir = 1 THEN 2 * step ELSE 0)) >>

SlantedPage(n, step, dir) ==
    Concat([k \in 1..n |-> SlantedRow(k, 100 + 60 * (k - 1), step, dir)])

Slants == {5, 8, 10, 12}

SlantedPages == {SlantedPage(MaxCount, step, dir) : step \in Slants, dir \in {1, 0 - 1}}

(* rows of 4 or 9 fragments next to rows of 3 or 1, 30, 60 or 61 apart, and *)
(* three runs one under the other                                           *)
TableGaps == {30, 60, 61}

AssemblerPages ==
    {PageOf(FALSE, t[1], n[1], t[2], n[2], gap) :
        t \in {"Q", "W"} \X {"D", "N"}, n \in (1..MaxCount) \X (1..MaxCount),
        gap \in TableGaps}
    \cup {Segment("Q", n, 100) \o Segment("N", n, 100 + 30 * n)
              \o Segment("Q", n, 100 + 60 * n) : n \in 1..MaxCount}

(* runs of label rows and number rows around the validation thresholds: one *)
(* row of three fragments among label rows, and 2 or 3 number rows under 7  *)
(* label rows                                                               *)
ThresholdPages ==
    {Segment("L", a, 100) \o Segment("D", 1, 100 + 30 * a)
         \o Segment("L", b, 130 + 30 * a) : a \in 0..MaxCount, b \in 0..MaxCount}
    \cup {Segment("L", 7, 100) \o Segment("N", b, 310) : b \in 2..3}

(* a first column that only the first rows fill, before eight full columns, *)
(* and columns 20px apart                                                   *)
SparseFirstColumnPages ==
    {PageOf(FALSE, "W", n1, "U", n2, 30) : n1 \in 1..MaxCount, n2 \in 1..MaxCount}
    \cup {Segment("G", n, 100) : n \in 1..MaxCount}

(* a header fragment midway between two boundaries, and rows with two      *)
(* fragments at one left edge, in reading order and reversed               *)
TiePages ==
    {RowFrags("Ht", 1, 100) \o Segment("D", MaxCount, 130),
     Segment("E", MaxCount, 100),
     Reverse(Segment("E", MaxCount, 100))}

(* rows of one short text, two letters or one letter and two dashes, above *)
(* rows of one number                                                      *)
ShortTextPages ==
    {PageOf(FALSE, t, n1, "N", n2, 30) :
        t \in {"Sa", "Sb"}, n1 \in 1..MaxCount, n2 \in 1..MaxCount}

(* fragments the recognition engine should not produce *)
MalformedFragments(y) ==
    { [text |-> t7],                                                  \* no bbox
      [text |-> t7, bbox |-> << <<210, y - 8>>, <<250, y - 8>> >>],   \* bbox too short
      Frag(t7, NoneNum, y),                                           \* x is None
      [text |-> t7, bbox |-> << <<210, NoneNum>>, <<250, NoneNum>>,
                                <<250, NoneNum>>, <<210, NoneNum>> >>], \* y is None
      [bbox |-> Frag(t7, 210, y).bbox],                               \* no text
      Frag(NoneText, 210, y) }                                        \* text is None

BlankFragments(y) == { Frag(tEmpty, 210, y), Frag(tBlank, 210, y) }

(* a sound page of a header and MaxCount data rows, and one more fragment, *)
(* in the page's second data row (y = 160) or in a row of its own below    *)
BasePage(h) == PageOf(h, "D", MaxCount, "N", 0, 30)
ExtraY == {160, 130 + 30 * MaxCount}

MalformedPages ==
    {Append(BasePage(h), f) : h \in BOOLEAN, f \in UNION {MalformedFragments(y) : y \in ExtraY}}
    \cup {Append(BasePage(FALSE), f) \o Segment("N", MaxCount, 400) :
              f \in MalformedFragments(160)}

BlankPages ==
    {Append(BasePage(h), f) : h \in BOOLEAN, f \in UNION {BlankFragments(y) : y \in ExtraY}}

DirectInputs ==
    {[via |-> "direct", ocr_result |-> <<>>, text_blocks |-> p] :
        p \in LaidOutPages \cup ReversedPages \cup WidePages \cup HeaderPages
              \cup SlantedPages \cup AssemblerPages \cup ThresholdPages
              \cup SparseFirstColumnPages \cup TiePages \cup ShortTextPages
              \cup MalformedPages \cup BlankPages \cup {<<>>, NoneBlocks}}

(* OCR results: the fragments of a sound page, and one more recognised     *)
(* text that is empty, blank, None or sound, in the old or the new format; *)
(* in the new format dt_polys may be one box short                         *)
OcrItems(page) ==
    [i \in 1..Len(page) |->
        [box |-> page[i].bbox, text |-> page[i].text, confidence |-> page[i].confidence]]

OcrOld(items) == << [format |-> "old", items |-> items] >>
OcrNew(items, nboxes) ==
    << [format |-> "new",
        rec_texts |-> [i \in 1..Len(items) |-> items[i].text],
        dt_polys |-> [i \in 1..nboxes |-> items[i].box],
        rec_scores |-> [i \in 1..Len(items) |-> items[i].confidence]] >>

OcrPages ==
    {Append(PageOf(h, "D", n, "N", 0, 30), Frag(t, 210, y)) :
        h \in BOOLEAN, n \in 1..MaxCount, t \in {tEmpty, tBlank, NoneText, t7}, y \in ExtraY}

OcrResults ==
    {<<>>}
    \cup {OcrOld(OcrItems(p)) : p \in OcrPages}
    \cup UNION {{OcrNew(OcrItems(p), Len(p)), OcrNew(OcrItems(p), Len(p) - 1)} : p \in OcrPages}

WorkerInputs == {[via |-> "worker", ocr_result |-> o, text_blocks |-> <<>>] : o \in OcrResults}

Inputs == DirectInputs \cup WorkerInputs

(* a worker that has no document *)
IdleWorker ==
    [pc |-> "idle", pages |-> <<>>, page_num |-> 0, all_pages_data |-> <<>>,
     status |-> "none", error |-> "none"]

(* no documents table and no worker processes: the extractor on its own *)
NoDatabase == <<>>

NoPool == <<>>

Init ==
    /\ extractor = [e \in {"e1"} |-> [worker_id |-> "w1"]]
    /\ worker = IdleWorker
    /\ db = NoDatabase
    /\ pool = NoPool
    /\ \E input \in Inputs :
          call = [c \in {1} |-> NewCall("e1", input.via, input.ocr_result, input.text_blocks)]

Spec == Init /\ [][Next]_vars

(***************************************************************************)
(* Two calls at once, on one TableExtractor or on two, their steps         *)
(* interleaved in every order.                                             *)
(***************************************************************************)
ScenarioA == PageOf(TRUE, "D", 2, "N", 0, 30)
ScenarioA3 == PageOf(TRUE, "D", 3, "N", 0, 30)
TwoTablesPage == PageOf(FALSE, "S", MaxCount, "D", MaxCount, 120)
FaultInSecondTablePage == PageOf(FALSE, "N", MaxCount, "Bx", MaxCount, 120)

PairInputs ==
    {[via |-> "direct", ocr_result |-> <<>>, text_blocks |-> p] :
        p \in {ScenarioA3, Reverse(ScenarioA3), TwoTablesPage, FaultInSecondTablePage,
               Append(BasePage(TRUE), [text |-> t7])}}
    \cup {[via |-> "worker", ocr_result |-> OcrOld(OcrItems(Append(ScenarioA3, Frag(tBlank, 210, 160)))),
           text_blocks |-> <<>>]}

InitTwo ==
    /\ extractor = [e \in {"e1", "e2"} |-> [worker_id |-> IF e = "e1" THEN "w1" ELSE "w2"]]
    /\ worker = IdleWorker
    /\ db = NoDatabase
    /\ pool = NoPool
    /\ \E in1 \in PairInputs, in2 \in PairInputs, e2 \in {"e1", "e2"} :
          call = [c \in Calls |->
                    IF c = 1 THEN NewCall("e1", in1.via, in1.ocr_result, in1.text_blocks)
                    ELSE NewCall(e2, in2.via, in2.ocr_result, in2.text_blocks)]

SpecTwo == InitTwo /\ [][Next]_vars

(***************************************************************************)
(* LightweightOCRWorker.process_single_document on one claimed document:   *)
(* its pages go one by one, in page order, through the recognition engine  *)
(* and extract_tables_from_page (process_batch; a document of fewer than   *)
(* batch_size = 30 pages is one batch), then the outputs are uploaded and  *)
(* the document is marked completed or failed.  worker.pages[k] is what    *)
(* the engine does on page k: it returns an OCR result, or it raises.      *)
(***************************************************************************)
MaxPages == 3

OcrRaises == << [format |-> "raises"] >>

ClaimedDocument(pages) ==
    [pc |-> "page", pages |-> pages, page_num |-> 1, all_pages_data |-> <<>>,
     status |-> "processing", error |-> "none"]

(* process_batch up to the call of extract_tables_from_page for one page *)
OcrPage ==
    /\ worker.pc = "page"
    /\ worker.page_num <= Len(worker.pages)
    /\ worker.pages[worker.page_num] # OcrRaises
    /\ call' = <<NewCall("e1", "worker", worker.pages[worker.page_num], <<>>)>>
    /\ worker' = [worker EXCEPT !.pc = "extracting"]
    /\ UNCHANGED <<extractor, db, pool>>

(* the tables returned: page_data is appended, the loop goes on *)
CollectPage ==
    /\ worker.pc = "extracting"
    /\ call[1].pc = "done"
    /\ worker' = [worker EXCEPT
                     !.all_pages_data = Append(@, [page |-> worker.page_num,
                                                   tables |-> call[1].result,
                                                   warned |-> call[1].warned]),
                     !.page_num = @ + 1,
                     !.pc = "page"]
    /\ UNCHANGED <<extractor, call, db, pool>>

(* an exception of the engine or of the extractor leaves process_batch and *)
(* process_single_document (try/finally only) and is caught in             *)
(* process_documents, which marks the document failed                      *)
PropagateException ==
    /\ worker.pc \in {"page", "extracting"}
    /\ IF worker.pc = "page"
       THEN /\ worker.page_num <= Len(worker.pages)
            /\ worker.pages[worker.page_num] = OcrRaises
       ELSE call[1].pc = "raised"
    /\ worker' = [worker EXCEPT !.status = "failed",
                                !.error = IF worker.pc = "page" THEN "ocr" ELSE "extraction",
                                !.pc = "finished"]
    /\ UNCHANGED <<extractor, call, db, pool>>

(* after the last page: the outputs are written and uploaded; both uploads *)
(* succeed and the document is marked completed, or an upload is refused   *)
(* or raises and it is marked failed                                       *)
UploadOutputs ==
    /\ worker.pc = "page"
    /\ worker.page_num > Len(worker.pages)
    /\ \E outcome \in {"ok", "upload refused", "upload error"} :
          worker' = [worker EXCEPT
                       !.status = IF outcome = "ok" THEN "completed" ELSE "failed",
                       !.error = IF outcome = "ok" THEN "none" ELSE outcome,
                       !.pc = "finished"]
    /\ UNCHANGED <<extractor, call, db, pool>>

(* what the engine does on a page of the document *)
DocumentPages ==
    { OcrOld(OcrItems(ScenarioA3)),
      OcrOld(OcrItems(Append(ScenarioA3, Frag(t7, NoneNum, 160)))),
      OcrNew(OcrItems(FaultInSecondTablePage), Len(FaultInSecondTablePage)),
      << [format |-> "old",
          items |-> Append(OcrItems(ScenarioA3),
                           [box |-> << <<210, 152>>, <<250, 152>> >>, text |-> t7,
                            confidence |-> 90])] >>,
      <<>>,
      OcrRaises }

RECURSIVE SeqsOf(_, _)
SeqsOf(S, n) ==
    IF n = 0 THEN {<<>>}
    ELSE {Append(s, x) : s \in SeqsOf(S, n - 1), x \in S}

Documents == UNION {SeqsOf(DocumentPages, n) : n \in 1..MaxPages}

InitDoc ==
    /\ extractor = [e \in {"e1"} |-> [worker_id |-> "w1"]]
    /\ call = <<>>
    /\ db = NoDatabase
    /\ pool = NoPool
    /\ \E pages \in Documents : worker = ClaimedDocument(pages)

NextDoc ==
    \/ OcrPage
    \/ ParsePage
    \/ EnterCall
    \/ GroupRows
    \/ ClassifyRows
    \/ AssembleTables
    \/ DetectColumns
    \/ MatchHeader
    \/ RenderTable
    \/ HandleException
    \/ ReturnTables
    \/ CollectPage
    \/ PropagateException
    \/ UploadOutputs

SpecDoc == InitDoc /\ [][NextDoc]_vars

(***************************************************************************)
(* The worker processes of one container, each with its own connection to  *)
(* the download_status table                                               *)
(***************************************************************************)
MaxDocs == 2

DocIds == <<"d1", "d2", "d3", "d4">>

Docs == {DocIds[i] : i \in 1..MaxDocs}

(* main() starts one process per worker slot; two of them are modelled *)
Workers == {"w1", "w2"}

(* the columns of a row that get_next_document reads before any worker runs *)
RowKinds ==
    <<[download_status |-> "success", ocr_status |-> "pending", s3_key |-> "key"],
      [download_status |-> "success", ocr_status |-> "NULL", s3_key |-> "key"],
      [download_status |-> "failed", ocr_status |-> "pending", s3_key |-> "key"],
      [download_status |-> "success", ocr_status |-> "pending", s3_key |-> "NULL"],
      [download_status |-> "success", ocr_status |-> "pending", s3_key |-> ""],
      [download_status |-> "success", ocr_status |-> "completed", s3_key |-> "key"]>>

NewRow(kind) ==
    [download_status |-> kind.download_status, ocr_status |-> kind.ocr_status,
     s3_key |-> kind.s3_key, ocr_worker_id |-> "NULL", locked_by |-> "none"]

(* the WHERE clause of the SELECT in get_next_document *)
Eligible(row) ==
    /\ row.download_status = "success"
    /\ row.ocr_status \in {"pending", "NULL"}
    /\ row.s3_key # "NULL"
    /\ row.s3_key # ""

(* FOR UPDATE without SKIP LOCKED semantics: every eligible row is a candidate *)
FreeRowsIgnoringLocks(rows) == {d \in DOMAIN rows : Eligible(rows[d])}

(* FOR UPDATE SKIP LOCKED: eligible rows no open transaction has locked *)
FreeRows(rows) ==
    {d \in DOMAIN rows : Eligible(rows[d]) /\ rows[d].locked_by = "none"}

(* a connection gives up its row locks at commit, at rollback and when it  *)
(* is closed                                                               *)
Unlock(rows, w) ==
    [d \in DOMAIN rows |->
        IF rows[d].locked_by = w THEN [rows[d] EXCEPT !.locked_by = "none"]
        ELSE rows[d]]

(* a worker process before its first pass through the loop of              *)
(* process_documents: the local variable doc is not bound yet              *)
NewWorker ==
    [pc |-> "get_next_document", doc |-> "unbound", selected |-> "none",
     conn |-> "open", exc |-> FALSE,
     text_uploaded |-> FALSE, json_uploaded |-> FALSE]

NewDatabase(rows) ==
    [rows |-> rows,
     first |-> rows,
     returned |-> [d \in DOMAIN rows |-> <<>>],
     uploads |-> [d \in DOMAIN rows |-> <<>>],
     completed_once |-> [d \in DOMAIN rows |-> FALSE],
     update_lost |-> [d \in DOMAIN rows |-> FALSE]]

Goto(w, pc) == [pool EXCEPT ![w].pc = pc]

(* the SELECT ... LIMIT 1 FOR UPDATE SKIP LOCKED of get_next_document *)
SelectForUpdate(w) ==
    /\ pool[w].pc = "get_next_document"
    /\ \/ /\ pool[w].conn = "open"
          /\ FreeRows(db.rows) # {}
          /\ \E d \in FreeRows(db.rows) :
                /\ db' = [db EXCEPT !.rows[d].locked_by = w]
                /\ pool' = [pool EXCEPT ![w].selected = d, ![w].pc = "update"]
       \/ /\ pool[w].conn = "open"
          /\ FreeRows(db.rows) = {}
          /\ pool' = [pool EXCEPT ![w].doc = "None"]
          /\ UNCHANGED db
       \/ /\ pool[w].conn = "open"
          /\ pool' = [pool EXCEPT ![w].doc = "None"]
          /\ UNCHANGED db
       \/ /\ pool' = [pool EXCEPT ![w].conn = "closed", ![w].pc = "handler"]
          /\ UNCHANGED db
    /\ UNCHANGED <<extractor, call, worker>>

(* the UPDATE and the commit of get_next_document, and its return *)
UpdateAndCommit(w) ==
    /\ pool[w].pc = "update"
    /\ LET d == pool[w].selected IN
       \/ /\ db' = [db EXCEPT
                      !.rows[d] = [@ EXCEPT !.ocr_status = "processing",
                                            !.ocr_worker_id = w,
                                            !.locked_by = "none"],
                      !.returned[d] =
                          Append(@, [worker |-> w,
                                     ocr_status |-> db.rows[d].ocr_status])]
          /\ pool' = [pool EXCEPT ![w].doc = d, ![w].selected = "none",
                                  ![w].text_uploaded = FALSE,
                                  ![w].json_uploaded = FALSE,
                                  ![w].pc = "download"]
       \/ /\ db' = [db EXCEPT !.rows = Unlock(@, w)]
          /\ pool' = [pool EXCEPT ![w].doc = "None", ![w].selected = "none",
                                  ![w].pc = "get_next_document"]
       \/ /\ db' = [db EXCEPT !.rows = Unlock(@, w)]
          /\ pool' = [pool EXCEPT ![w].conn = "closed", ![w].selected = "none",
                                  ![w].pc = "handler"]
    /\ UNCHANGED <<extractor, call, worker>>

(* download_pdf, called before the try block of process_single_document *)
Download(w) ==
    /\ pool[w].pc = "download"
    /\ \/ pool' = Goto(w, "process")
       \/ pool' = Goto(w, "handler")
    /\ UNCHANGED <<extractor, call, worker, db>>

(* conversion, OCR of the batches and save_raw_text_output *)
ProcessPages(w) ==
    /\ pool[w].pc = "process"
    /\ \/ pool' = Goto(w, "upload")
       \/ pool' = [pool EXCEPT ![w].exc = TRUE, ![w].pc = "cleanup"]
    /\ UNCHANGED <<extractor, call, worker, db>>

(* the two upload_text calls and the test on their results *)
Upload(w) ==
    /\ pool[w].pc = "upload"
    /\ \/ \E text_uploaded \in BOOLEAN, json_uploaded \in BOOLEAN :
             pool' = [pool EXCEPT
                        ![w].text_uploaded = text_uploaded,
                        ![w].json_uploaded = json_uploaded,
                        ![w].pc = IF text_uploaded /\ json_uploaded
                                  THEN "mark_completed"
                                  ELSE "mark_failed_inner"]
       \/ pool' = Goto(w, "mark_failed_inner")
    /\ UNCHANGED <<extractor, call, worker, db>>

(* the uploads with final timing, then mark_completed *)
MarkCompleted(w) ==
    /\ pool[w].pc = "mark_completed"
    /\ LET d == pool[w].doc IN
       \/ /\ pool[w].conn = "open"
          /\ db' = [db EXCEPT
                      !.rows[d].ocr_status = "completed",
                      !.completed_once[d] = TRUE,
                      !.uploads[d] = <<pool[w].text_uploaded,
                                       pool[w].json_uploaded>>]
          /\ pool' = [pool EXCEPT ![w].exc = FALSE, ![w].pc = "cleanup"]
       \/ /\ pool[w].conn = "open"
          /\ pool' = Goto(w, "mark_failed_inner")
          /\ UNCHANGED db
       \/ /\ pool' = [pool EXCEPT ![w].conn = "closed",
                                  ![w].pc = "mark_failed_inner"]
          /\ UNCHANGED db
    /\ UNCHANGED <<extractor, call, worker>>

(* mark_failed, called by process_single_document (inner) or by the        *)
(* handler of process_documents (outer)                                    *)
MarkFailed(w) ==
    /\ pool[w].pc \in {"mark_failed_inner", "mark_failed_outer"}
    /\ LET d == pool[w].doc
           inner == pool[w].pc = "mark_failed_inner"
           after == IF inner THEN "cleanup" ELSE "get_next_document"
       IN
       \/ /\ pool[w].conn = "open"
          /\ db' = [db EXCEPT !.rows[d].ocr_status = "failed"]
          /\ pool' = [pool EXCEPT ![w].exc = FALSE, ![w].pc = after]
       \/ /\ pool[w].conn = "open"
          /\ db' = [db EXCEPT !.update_lost[d] = TRUE]
          /\ pool' = [pool EXCEPT ![w].exc = FALSE, ![w].pc = after]
       \/ /\ db' = [db EXCEPT !.update_lost[d] = TRUE]
          /\ pool' = [pool EXCEPT ![w].conn = "closed",
                                  ![w].exc = inner,
                                  ![w].pc = IF inner THEN "cleanup" ELSE "dead"]
    /\ UNCHANGED <<extractor, call, worker>>

(* the finally block of process_single_document *)
Cleanup(w) ==
    /\ pool[w].pc = "cleanup"
    /\ \E raises \in BOOLEAN :
          pool' = [pool EXCEPT
                     ![w].exc = FALSE,
                     ![w].text_uploaded = FALSE,
                     ![w].json_uploaded = FALSE,
                     ![w].pc = IF raises \/ pool[w].exc THEN "handler"
                               ELSE "get_next_document"]
    /\ UNCHANGED <<extractor, call, worker, db>>

(* the except block of process_documents *)
Handler(w) ==
    /\ pool[w].pc = "handler"
    /\ pool' = Goto(w, CASE pool[w].doc = "unbound" -> "dead"
                         [] pool[w].doc = "None" -> "get_next_document"
                         [] OTHER -> "mark_failed_outer")
    /\ UNCHANGED <<extractor, call, worker, db>>

WorkerStep(w) ==
    \/ SelectForUpdate(w)
    \/ UpdateAndCommit(w)
    \/ Download(w)
    \/ ProcessPages(w)
    \/ Upload(w)
    \/ MarkCompleted(w)
    \/ MarkFailed(w)
    \/ Cleanup(w)
    \/ Handler(w)

(* the tables of MaxDocs rows, up to the order of the rows: the SELECT has *)
(* no ORDER BY, so LIMIT 1 may return any row that qualifies               *)
Tables ==
    {[d \in Docs |-> NewRow(RowKinds[kind[CHOOSE i \in 1..MaxDocs : DocIds[i] = d]])] :
        kind \in {k \in [1..MaxDocs -> DOMAIN RowKinds] :
                    \A i \in 1..MaxDocs, j \in 1..MaxDocs : i <= j => k[i] <= k[j]}}

InitPool ==
    /\ extractor = [e \in {"e1"} |-> [worker_id |-> "w1"]]
    /\ call = <<>>
    /\ worker = IdleWorker
    /\ \E rows \in Tables : db = NewDatabase(rows)
    /\ pool = [w \in Workers |-> NewWorker]

NextPool == \E w \in Workers : WorkerStep(w)

SpecPool == InitPool /\ [][NextPool]_vars

(* every worker process keeps being scheduled *)
SpecPoolFair == SpecPool /\ \A w \in Workers : WF_vars(WorkerStep(w))

(***************************************************************************)
(* Properties of extract_tables_from_page                                  *)
(***************************************************************************)
Without(s, i) == SubSeq(s, 1, i - 1) \o SubSeq(s, i + 1, Len(s))

(* C1: extract_tables_from_page never raises.  Whatever the fragments are  *)
(* (an empty or None list, missing keys, a bbox that is too short or not   *)
(* numeric, a text that is not a string) no exception leaves the call, and *)
(* what a finished call has returned is a list of tables.                  *)
C1_NeverRaises ==
    \A c \in DOMAIN call :
        /\ call[c].pc # "raised"
        /\ call[c].pc = "done" =>
              \A k \in 1..Len(call[c].result) : DOMAIN call[c].result[k] = {"html_structure"}

(* a call that hit a TypeError inside the detection and still returned *)
C1_Witness ==
    \E c \in DOMAIN call :
        call[c].pc = "done" /\ call[c].warned /\ call[c].exc = "TypeError"

(* C2: whenever an exception occurs at any step of the detection, also     *)
(* while a second or later table is processed after earlier ones were      *)
(* rendered, the call returns the empty list, never a partial list.        *)
C2_FaultGivesNoTables ==
    \A c \in DOMAIN call :
        (call[c].pc = "done" /\ call[c].warned) => call[c].result = <<>>

(* C3: a fragment whose bounding box is unusable is skipped: the tables    *)
(* returned for a page that contains it equal the tables returned for the  *)
(* page without it.                                                        *)
UnusableBBox(b) == IF CenterFault(b) # "none" THEN TRUE ELSE ~IsNum(LeftX(b))

C3_BadBBoxSkipped ==
    \A c \in DOMAIN call :
        (call[c].pc = "done" /\ call[c].text_blocks # NoneBlocks) =>
            \A i \in 1..Len(call[c].text_blocks) :
                UnusableBBox(call[c].text_blocks[i]) =>
                    call[c].result =
                        ExtractTablesFromPage(Self(c), Without(call[c].text_blocks, i)).result

(* C4 as stated: a fragment whose text is empty or missing is skipped by   *)
(* the core, so the tables equal those of the page without the fragment.   *)
EmptyOrMissingText(b) == IF ~HasText(b) THEN TRUE ELSE b.text = NoneText \/ b.text = <<>>

OcrTexts(ocr_result) ==
    IF ocr_result = <<>> THEN <<>>
    ELSE IF ocr_result[1].format = "new" THEN ocr_result[1].rec_texts
    ELSE [i \in 1..Len(ocr_result[1].items) |-> ocr_result[1].items[i].text]

OcrWithout(ocr_result, i) ==
    IF ocr_result[1].format = "new"
    THEN << [format |-> "new",
             rec_texts |-> Without(ocr_result[1].rec_texts, i),
             dt_polys |-> IF i <= Len(ocr_result[1].dt_polys)
                          THEN Without(ocr_result[1].dt_polys, i)
                          ELSE ocr_result[1].dt_polys,
             rec_scores |-> Without(ocr_result[1].rec_scores, i)] >>
    ELSE << [format |-> "old", items |-> Without(ocr_result[1].items, i)] >>

IsBlankText(text) ==
    IF text = NoneText THEN TRUE ELSE \A k \in 1..Len(text) : IsSpace(text[k])

FragmentsOf(table) ==
    UNION {{table[r][k] : k \in 1..Len(table[r])} : r \in 1..Len(table)}

C5_TablesShareNoFragment ==
    \A c \in DOMAIN call :
        \A t1, t2 \in 1..Len(call[c].complete_tables) :
            t1 # t2 => FragmentsOf(call[c].complete_tables[t1])
                         \cap FragmentsOf(call[c].complete_tables[t2]) = {}

(* C6: every table block the assembler returns has at least 3 data rows,   *)
(* so a page whose data rows form only runs of fewer than 3 rows (one      *)
(* isolated numeric row, say) gives an empty table list.                   *)
NoRunOfThree(rows) ==
    ~ \E i \in 1..(Len(rows) - 2) :
          SameTable(rows[i], rows[i + 1]) /\ SameTable(rows[i + 1], rows[i + 2])

C6_BlocksHaveThreeRows ==
    \A c \in DOMAIN call :
        /\ \A t \in 1..Len(call[c].data_tables) : Len(call[c].data_tables[t]) >= 3
        /\ (call[c].pc = "done" /\ NoRunOfThree(call[c].data_rows)) => call[c].result = <<>>

(* data rows were found, in runs shorter than 3, and no table was returned *)
C6_Witness ==
    \E c \in DOMAIN call :
        /\ call[c].pc = "done" /\ ~call[c].warned
        /\ Len(call[c].data_rows) >= 3 /\ NoRunOfThree(call[c].data_rows)
        /\ call[c].result = <<>>

(* C7: the column boundaries found for a table block are strictly          *)
(* increasing and at most 8, whether or not more than 8 clusters were      *)
(* found.                                                                  *)
StrictlyIncreasing(s) == \A i \in 1..(Len(s) - 1) : s[i] < s[i + 1]

C7_BoundariesIncreasingAtMostEight ==
    \A c \in DOMAIN call :
        /\ StrictlyIncreasing(call[c].column_boundaries)
        /\ Len(call[c].column_boundaries) <= 8
        /\ \A t \in 1..Len(call[c].boundaries_used) :
              /\ StrictlyIncreasing(call[c].boundaries_used[t])
              /\ Len(call[c].boundaries_used[t]) <= 8

(* a table with more than 8 clusters got its 8 boundaries *)
C7_Witness ==
    \E c \in DOMAIN call :
        /\ call[c].pc = "header"
        /\ Len(ClustersOf(Concat(call[c].data_tables[call[c].table_idx]))) > 8
        /\ Len(call[c].column_boundaries) = 8

(* C8 as stated: in every row the pipeline produces, the rows of the       *)
(* RowGrouper and the header row of the HeaderMatcher, explicit or         *)
(* synthesized, the fragments are in ascending left-edge x, and the rows   *)
(* of every table block are in strictly ascending vertical position.       *)
SortedByX(row) == \A i \in 1..(Len(row) - 1) : LeftX(row[i]) <= LeftX(row[i + 1])

RowsAscending(table) ==
    \A i \in 1..(Len(table) - 1) : Center2(table[i][1]) < Center2(table[i + 1][1])

C8_EveryRowSortedByX ==
    \A c \in DOMAIN call :
        /\ \A i \in 1..Len(call[c].rows) : SortedByX(call[c].rows[i])
        /\ call[c].matched_header # NoneRow => SortedByX(call[c].matched_header)
        /\ \A t \in 1..Len(call[c].data_tables) : RowsAscending(call[c].data_tables[t])

(* C8, amended: the rows of the RowGrouper, and so the data rows of every  *)
(* table block and every explicit header row, have their fragments in      *)
(* ascending left-edge x, and the rows of every table block are in         *)
(* strictly ascending vertical position; a synthesized header row is not   *)
(* covered.                                                                *)
IsExplicitHeader(c) ==
    \E h \in 1..Len(call[c].header_rows) : call[c].header_rows[h] = call[c].matched_header

C8_GroupedRowsSortedByX ==
    \A c \in DOMAIN call :
        /\ \A i \in 1..Len(call[c].rows) : SortedByX(call[c].rows[i])
        /\ \A t \in 1..Len(call[c].data_tables) :
              /\ RowsAscending(call[c].data_tables[t])
              /\ \A i \in 1..Len(call[c].data_tables[t]) : SortedByX(call[c].data_tables[t][i])
        /\ IsExplicitHeader(c) => SortedByX(call[c].matched_header)

(* fragments handed over out of x order, an explicit header matched *)
C8_Witness ==
    \E c \in DOMAIN call :
        /\ call[c].pc = "render" /\ IsExplicitHeader(c)
        /\ \E i \in 1..(Len(call[c].text_blocks) - 1) :
              /\ Center2(call[c].text_blocks[i]) = Center2(call[c].text_blocks[i + 1])
              /\ LeftX(call[c].text_blocks[i]) > LeftX(call[c].text_blocks[i + 1])

C10_ScenarioAOneTable ==
    \A c \in DOMAIN call :
        (call[c].pc = "done" /\ call[c].text_blocks = ScenarioA) =>
            /\ Len(call[c].result) = 1
            /\ Len(call[c].complete_tables[1]) = 3
            /\ call[c].boundaries_used[1] = <<10, 200, 350>>
            /\ call[c].result[1].html_structure[3] = "<th>"

(* C10, amended: Scenario A gives the empty list, its two data rows being  *)
(* fewer than the 3 a table needs; with a third data row at y=190 the call *)
(* returns exactly one table, the matched header row and the 3 data rows,  *)
(* with the boundaries 10, 200, 350 and the first row flagged as header.   *)
C10_ScenarioANoTable ==
    \A c \in DOMAIN call :
        call[c].pc = "done" =>
            /\ call[c].text_blocks = ScenarioA =>
                  /\ Len(call[c].header_rows) = 1 /\ Len(call[c].data_rows) = 2
                  /\ call[c].result = <<>>
            /\ call[c].text_blocks = ScenarioA3 =>
                  /\ Len(call[c].result) = 1
                  /\ call[c].complete_tables[1] = call[c].rows
                  /\ Len(call[c].complete_tables[1]) = 4
                  /\ call[c].boundaries_used[1] = <<10, 200, 350>>
                  /\ call[c].result[1].html_structure[3] = "<th>"
                  /\ RowTag(2, call[c].complete_tables[1][2]) = "td"

(* Scenario A has been extracted *)
C10_Witness ==
    \E c \in DOMAIN call :
        /\ call[c].pc = "done" /\ call[c].text_blocks = ScenarioA
        /\ ~call[c].warned /\ Len(call[c].data_rows) = 2

(* the opening tag of the first cell of each row of a table's markup *)
RowTags(html) ==
    LET starts == SelectSeq([k \in 1..Len(html) |-> k], LAMBDA k : html[k] = "<tr>")
    IN  [j \in 1..Len(starts) |-> html[starts[j] + 1]]

(* C11 as stated: whenever the HeaderMatcher returned a header row for a   *)
(* table, explicit or synthesized, the first row of the rendered table is  *)
(* emitted with th cells, and so is a first row that classifies as         *)
(* header-like.                                                            *)
C11_MatchedHeaderIsTh ==
    \A c \in DOMAIN call :
        \A t \in 1..Len(call[c].tables_data) :
            /\ call[c].header_kinds[t] # "none" =>
                  RowTags(call[c].tables_data[t].html_structure)[1] = "<th>"
            /\ IsHeaderRow(call[c].complete_tables[t][1]) =>
                  RowTags(call[c].tables_data[t].html_structure)[1] = "<th>"

(* C11, amended: the first row of a rendered table is emitted with th      *)
(* cells exactly when it classifies as header-like, every other row with   *)
(* td cells; so an explicit header is emitted with th, a synthesized one   *)
(* only when its fragments classify as header-like.                        *)
C11_HeaderLikeFirstRowIsTh ==
    \A c \in DOMAIN call :
        \A t \in 1..Len(call[c].tables_data) :
            LET tags == RowTags(call[c].tables_data[t].html_structure)
            IN  /\ Len(tags) = Len(call[c].complete_tables[t])
                /\ tags[1] = "<th>" <=> IsHeaderRow(call[c].complete_tables[t][1])
                /\ call[c].header_kinds[t] = "explicit" => tags[1] = "<th>"
                /\ \A r \in 2..Len(tags) : tags[r] = "<td>"

(* a synthesized header that classifies as header-like was emitted with th *)
C11_Witness ==
    \E c \in DOMAIN call :
        \E t \in 1..Len(call[c].tables_data) :
            /\ call[c].header_kinds[t] = "synthesized"
            /\ IsHeaderRow(call[c].complete_tables[t][1])
            /\ RowTags(call[c].tables_data[t].html_structure)[1] = "<th>"

(* the markup of row r of a table's markup, between <tr> and </tr>, and    *)
(* its cells, each the characters between an opening and a closing tag     *)
CellOpen == {"<td>", "<th>"}
CellClose == {"</td>", "</th>"}

RowOfMarkup(html, r) ==
    LET starts == SelectSeq([k \in 1..Len(html) |-> k], LAMBDA k : html[k] = "<tr>")
        ends == SelectSeq([k \in 1..Len(html) |-> k], LAMBDA k : html[k] = "</tr>")
    IN  SubSeq(html, starts[r] + 1, ends[r] - 1)

CellsOfRow(markup) ==
    LET opens == SelectSeq([k \in 1..Len(markup) |-> k], LAMBDA k : markup[k] \in CellOpen)
        closes == SelectSeq([k \in 1..Len(markup) |-> k], LAMBDA k : markup[k] \in CellClose)
    IN  [j \in 1..Len(opens) |-> SubSeq(markup, opens[j] + 1, closes[j] - 1)]

Inked(text) == Cardinality({k \in 1..Len(text) : text[k] # " "})

(* C12: every rendered row has exactly one cell per column boundary of its *)
(* table, and every fragment of the row gives its text to exactly one cell *)
(* of that row: each text stands in a cell, and the cells of the row hold  *)
(* as many characters other than spaces as the fragments of the row.       *)
C12_RowsFillTheGrid ==
    \A c \in DOMAIN call :
        \A t \in 1..Len(call[c].tables_data) :
            \A r \in 1..Len(call[c].complete_tables[t]) :
                LET row == call[c].complete_tables[t][r]
                    cells == CellsOfRow(RowOfMarkup(call[c].tables_data[t].html_structure, r))
                IN  /\ Len(cells) = Len(call[c].boundaries_used[t])
                    /\ Len(cells) >= 1
                    /\ \A i \in 1..Len(row) : \E j \in 1..Len(cells) : Contains(cells[j], row[i].text)
                    /\ SumSeq([j \in 1..Len(cells) |-> Inked(cells[j])])
                          = SumSeq([i \in 1..Len(row) |-> Inked(row[i].text)])

(* a rendered row with more fragments than columns: two share a cell *)
C12_Witness ==
    \E c \in DOMAIN call :
        \E t \in 1..Len(call[c].tables_data) :
            \E r \in 1..Len(call[c].complete_tables[t]) :
                /\ Len(call[c].complete_tables[t][r]) > Len(call[c].boundaries_used[t])
                /\ \A i \in 1..Len(call[c].complete_tables[t][r]) :
                      Inked(call[c].complete_tables[t][r][i].text) >= 1

(* C13: a fault in the table detection of one page stays in that page: the *)
(* worker goes on through the remaining pages in ascending page order, and *)
(* the document is not marked failed because of the fault, only because    *)
(* the engine raised or the upload failed.                                 *)
C13_FaultStaysInItsPage ==
    /\ \A k \in 1..Len(worker.all_pages_data) : worker.all_pages_data[k].page = k
    /\ worker.error # "extraction"
    /\ worker.pc = "finished" =>
          IF \E k \in 1..Len(worker.pages) : worker.pages[k] = OcrRaises
          THEN worker.error = "ocr" =>
                  worker.pages[Len(worker.all_pages_data) + 1] = OcrRaises
          ELSE /\ Len(worker.all_pages_data) = Len(worker.pages)
               /\ worker.status = "failed" =>
                     worker.error \in {"upload refused", "upload error"}

(* the detection failed on the first page, the later pages were processed  *)
(* and the document was marked completed                                   *)
C13_Witness ==
    /\ worker.pc = "finished" /\ worker.status = "completed"
    /\ Len(worker.all_pages_data) = Len(worker.pages)
    /\ Len(worker.pages) >= 2
    /\ worker.all_pages_data[1].warned

(* C14 as stated: in every row of the RowGrouper any two fragments have    *)
(* vertical centres at most 10px apart.                                    *)
C14_RowWithinTolerance ==
    \A c \in DOMAIN call :
        \A r \in 1..Len(call[c].rows) :
            \A i, j \in 1..Len(call[c].rows[r]) :
                Abs(Center2(call[c].rows[r][i]) - Center2(call[c].rows[r][j])) <= 2 * 10

(* C14, amended: in every row of the RowGrouper each fragment but the      *)
(* topmost has another fragment of the row at most 10px above it (or level *)
(* with it), so fragments adjacent in vertical order are at most 10px      *)
(* apart while the row may span more; and the topmost fragment of a row is *)
(* more than 10px below every fragment of the row before it.               *)
TopOf(row) ==
    CHOOSE i \in 1..Len(row) : \A j \in 1..Len(row) : Center2(row[i]) <= Center2(row[j])

C14_NeighboursWithinTolerance ==
    \A c \in DOMAIN call :
        /\ \A r \in 1..Len(call[c].rows) :
              LET row == call[c].rows[r]
              IN  \A i \in 1..Len(row) :
                      \/ Center2(row[i]) = Center2(row[TopOf(row)])
                      \/ \E j \in 1..Len(row) :
                            /\ j # i
                            /\ Center2(row[j]) <= Center2(row[i])
                            /\ Center2(row[i]) - Center2(row[j]) <= 2 * 10
        /\ \A r \in 1..(Len(call[c].rows) - 1) :
              \A j \in 1..Len(call[c].rows[r]) :
                  Center2(call[c].rows[r + 1][TopOf(call[c].rows[r + 1])])
                      - Center2(call[c].rows[r][j]) > 2 * 10

(* a row whose fragments span more than 10px *)
C14_Witness ==
    \E c \in DOMAIN call :
        \E r \in 1..Len(call[c].rows) :
            \E i, j \in 1..Len(call[c].rows[r]) :
                Center2(call[c].rows[r][i]) - Center2(call[c].rows[r][j]) > 2 * 10

(* the calls that have handed rows to the TableAssembler *)
Assembling(c) ==
    call[c].pc \in {"assemble", "columns", "header", "render", "return"}

(* C15 as stated: the rows given to the TableAssembler are exactly the     *)
(* page's financial-like rows, in top-to-bottom order, header-like or not. *)
C15_AllFinancialRowsAssembled ==
    \A c \in DOMAIN call :
        Assembling(c) =>
            call[c].data_rows = SelectSeq(call[c].rows, LAMBDA row : IsFinancialRow(row))

(* C15, amended: the rows given to the TableAssembler are exactly the      *)
(* page's rows that are not header-like and are financial-like, in         *)
(* top-to-bottom order; a header-like row is never among them, financial   *)
(* or not, and the assembler is not run when no such row exists.           *)
C15_NonHeaderFinancialRowsAssembled ==
    \A c \in DOMAIN call :
        /\ (Assembling(c) \/ (call[c].pc = "done" /\ ~call[c].warned)) =>
              /\ call[c].data_rows =
                     SelectSeq(call[c].rows,
                               LAMBDA row : IsFinancialRow(row) /\ ~IsHeaderRow(row))
              /\ \A i \in 1..Len(call[c].data_rows) : ~IsHeaderRow(call[c].data_rows[i])
        /\ Assembling(c) => call[c].data_rows # <<>>

(* a page with a row both header-like and financial-like reaches the       *)
(* assembler, together with a row that is financial and not header-like    *)
C15_Witness ==
    \E c \in DOMAIN call :
        /\ Assembling(c)
        /\ \E i \in 1..Len(call[c].rows) :
              IsHeaderRow(call[c].rows[i]) /\ IsFinancialRow(call[c].rows[i])
        /\ \E i \in 1..Len(call[c].rows) :
              ~IsHeaderRow(call[c].rows[i]) /\ IsFinancialRow(call[c].rows[i])
        /\ Len(call[c].data_rows) < Len(call[c].rows)

(* the calls whose TableAssembler has returned *)
Assembled(c) == call[c].pc \in {"columns", "header", "render", "return"}

(* the gate of the claims: vertical gap at most 60px, fragment counts at   *)
(* most 2 apart                                                            *)
GateHolds(prev, cur) ==
    /\ Center2(cur[1]) - Center2(prev[1]) <= 2 * 60
    /\ Len(cur) - Len(prev) \in (0 - 2)..2

(* <<a, b>>: rows[a..b] is a run the gate holds inside and fails around *)
MaximalRuns(rows) ==
    {run \in (1..Len(rows)) \X (1..Len(rows)) :
        /\ run[1] <= run[2]
        /\ run[1] = 1 \/ ~GateHolds(rows[run[1] - 1], rows[run[1]])
        /\ \A i \in (run[1] + 1)..run[2] : GateHolds(rows[i - 1], rows[i])
        /\ run[2] = Len(rows) \/ ~GateHolds(rows[run[2]], rows[run[2] + 1])}

RunRows(rows, run) == SubSeq(rows, run[1], run[2])

C16_WitnessGap ==
    \E c \in DOMAIN call :
        /\ Assembled(c)
        /\ Len(call[c].data_tables) >= 2
        /\ \E i \in 2..Len(call[c].data_rows) :
              /\ Center2(call[c].data_rows[i][1]) - Center2(call[c].data_rows[i - 1][1]) = 2 * 61
              /\ Len(call[c].data_rows[i]) - Len(call[c].data_rows[i - 1]) \in (0 - 2)..2

(* the validation of the claims, on whole numbers: 20% of n is n / 5 and   *)
(* 30% of n is 3n / 10                                                     *)
MultiFragmentRows(run) == Cardinality({i \in 1..Len(run) : Len(run[i]) >= 2})

DigitRows(run) ==
    Cardinality({i \in 1..Len(run) :
                    \E j \in 1..Len(run[i]) : AnyChar(run[i][j].text, IsDigit)})

ShouldKeep(run) ==
    /\ Len(run) >= 3
    /\ \/ 5 * MultiFragmentRows(run) >= Len(run)
       \/ 10 * DigitRows(run) >= 3 * Len(run)

(* C17: a closed run of data rows is output as a table block exactly when  *)
(* it has at least 3 rows and at least 20% of its rows have 2 or more      *)
(* fragments or at least 30% of its rows hold a digit; the same for the    *)
(* runs a gate violation closes and for the last run of the page.          *)
C17_KeptIffLongAndValid ==
    \A c \in DOMAIN call :
        Assembled(c) =>
            LET rows == call[c].data_rows
                tables == call[c].data_tables
            IN  \A run \in MaximalRuns(rows) :
                    (\E t \in 1..Len(tables) : tables[t] = RunRows(rows, run))
                        <=> ShouldKeep(RunRows(rows, run))

(* a page whose last run is kept on its digits alone (at exactly 30%) while *)
(* having no row of 2 fragments; a page with a run closed by the gate that  *)
(* is kept and a last run of 3 rows or more that is dropped                 *)
C17_Witness ==
    \E c \in DOMAIN call :
        /\ Assembled(c)
        /\ \E run \in MaximalRuns(call[c].data_rows) :
              LET r == RunRows(call[c].data_rows, run)
              IN  /\ run[2] = Len(call[c].data_rows)
                  /\ MultiFragmentRows(r) = 0
                  /\ 10 * DigitRows(r) = 3 * Len(r)
                  /\ call[c].data_tables = <<r>>

C17_WitnessDropped ==
    \E c \in DOMAIN call :
        /\ Assembled(c)
        /\ \E r1, r2 \in MaximalRuns(call[c].data_rows) :
              /\ r1[2] < r2[1]
              /\ r2[2] = Len(call[c].data_rows)
              /\ r2[2] - r2[1] >= 2
              /\ call[c].data_tables = <<RunRows(call[c].data_rows, r1)>>

(* the calls holding the boundaries of the block data_tables[table_idx] *)
HasBoundaries(c) == call[c].pc \in {"header", "render"}

BlockFragments(c) == Concat(call[c].data_tables[call[c].table_idx])

MinLeftX(blocks) ==
    CHOOSE v \in {LeftX(blocks[i]) : i \in 1..Len(blocks)} :
        \A i \in 1..Len(blocks) : v <= LeftX(blocks[i])

(* C18: for every table block the first boundary returned is the bucketed  *)
(* minimum left-edge x over all fragments of the block, also when the cap  *)
(* of 8 columns is applied.                                                *)
C18_FirstBoundaryIsMinX ==
    \A c \in DOMAIN call :
        HasBoundaries(c) =>
            /\ call[c].column_boundaries # <<>>
            /\ call[c].column_boundaries[1] = Bucket(MinLeftX(BlockFragments(c)))
            /\ \A k \in 2..Len(call[c].column_boundaries) :
                  call[c].column_boundaries[k] > call[c].column_boundaries[1]

(* the cap is applied to a block whose leftmost column holds fewer          *)
(* fragments than every other column                                        *)
C18_Witness ==
    \E c \in DOMAIN call :
        /\ HasBoundaries(c)
        /\ Len(ClustersOf(BlockFragments(c))) > 8
        /\ Len(call[c].column_boundaries) = 8
        /\ \A k \in 2..Len(ClustersOf(BlockFragments(c))) :
              XPositionCount(BlockFragments(c), ClustersOf(BlockFragments(c))[k])
                  > XPositionCount(BlockFragments(c), call[c].column_boundaries[1])

(* the gaps between consecutive distinct x-buckets of a block *)
BucketGaps(blocks) ==
    LET xs == XPositions(blocks)
    IN  [i \in 1..(Len(xs) - 1) |-> xs[i + 1] - xs[i]]

(* radius = clamp(0.6 * total / count, 50, 200), on whole numbers *)
IsClampOfPointSixMean(radius, total, count) ==
    \/ 6 * total <= 50 * 10 * count /\ radius = 50
    \/ 6 * total >= 200 * 10 * count /\ radius = 200
    \/ /\ 6 * total > 50 * 10 * count
       /\ 6 * total < 200 * 10 * count
       /\ 10 * count * radius = 6 * total

(* C19 as stated: the clustering radius is clamp(0.6 * mean(G), 50, 200),  *)
(* G the gaps between consecutive distinct x-buckets that are not below    *)
(* 20px, and 50 when G is empty.                                           *)
C19_RadiusIsClampedMean ==
    \A c \in DOMAIN call :
        HasBoundaries(c) =>
            LET G == SelectSeq(BucketGaps(BlockFragments(c)), LAMBDA gap : ~(gap < 20))
            IN  IF G = <<>> THEN call[c].cluster_threshold = 50
                ELSE IsClampOfPointSixMean(call[c].cluster_threshold, SumSeq(G), Len(G))

(* int(0.6 * total / count) as double arithmetic gives it: the whole part, *)
(* and one less for the whole products of PointSixShort                    *)
TruncatedPointSixMean(total, count) ==
    IF (6 * total) % (10 * count) = 0 /\ ((6 * total) \div (10 * count)) \in PointSixShort
    THEN ((6 * total) \div (10 * count)) - 1
    ELSE (6 * total) \div (10 * count)

(* C19, amended: the clustering radius is a whole number of pixels,        *)
(* max(50, min(200, int(0.6 * mean(G)))) with the product truncated, G the *)
(* gaps between consecutive distinct x-buckets that are strictly above     *)
(* 20px (a gap of exactly 20px is dropped), and 50 when G is empty.        *)
C19_RadiusIsTruncatedMeanOfWideGaps ==
    \A c \in DOMAIN call :
        HasBoundaries(c) =>
            LET G == SelectSeq(BucketGaps(BlockFragments(c)), LAMBDA gap : gap > 20)
                t == IF G = <<>> THEN 0 ELSE TruncatedPointSixMean(SumSeq(G), Len(G))
            IN  call[c].cluster_threshold =
                    IF G = <<>> THEN 50
                    ELSE IF t < 50 THEN 50 ELSE IF t > 200 THEN 200 ELSE t

(* a block with two columns exactly 20px apart, whose radius comes from    *)
(* the other gap alone                                                     *)
C19_Witness ==
    \E c \in DOMAIN call :
        /\ HasBoundaries(c)
        /\ \E i \in 1..Len(BucketGaps(BlockFragments(c))) :
              BucketGaps(BlockFragments(c))[i] = 20
        /\ call[c].cluster_threshold = 114

(* a block whose 0.6 * mean(G) is not a whole number *)
C19_WitnessTruncated ==
    \E c \in DOMAIN call :
        /\ HasBoundaries(c)
        /\ LET G == SelectSeq(BucketGaps(BlockFragments(c)), LAMBDA gap : gap > 20)
           IN  /\ G # <<>>
               /\ (6 * SumSeq(G)) % (10 * Len(G)) # 0
               /\ 6 * SumSeq(G) > 50 * 10 * Len(G)
               /\ 6 * SumSeq(G) < 200 * 10 * Len(G)

(* the calls whose HeaderMatcher has returned for data_tables[table_idx] *)
HeaderReturned(c) == call[c].pc = "render"

TableY2(c) == Center2(call[c].data_tables[call[c].table_idx][1][1])

(* the page's rows that are header-like and above the table's first row *)
EligibleHeaders(c) ==
    {h \in 1..Len(call[c].rows) :
        /\ IsHeaderRow(call[c].rows[h])
        /\ Center2(call[c].rows[h][1]) < TableY2(c)}

(* score(h) of the claim as a fraction: the fragments of h less than 40px  *)
(* from some boundary over the fragments of h, times                       *)
(* 1 / (1 + (table_y - header_y) / 100)                                    *)
ClaimScore(c, h) ==
    LET row == call[c].rows[h]
        near == {i \in 1..Len(row) :
                    \E k \in 1..Len(call[c].column_boundaries) :
                        /\ LeftX(row[i]) - call[c].column_boundaries[k] < 40
                        /\ call[c].column_boundaries[k] - LeftX(row[i]) < 40}
    IN  << 200 * Cardinality(near), Len(row) * (200 + TableY2(c) - Center2(row[1])) >>

ExceedsThreshold(score) == 10 * score[1] > 3 * score[2]

C20_WitnessRejected ==
    \E c \in DOMAIN call :
        /\ HeaderReturned(c)
        /\ call[c].header_kind # "explicit"
        /\ \E h \in EligibleHeaders(c) :
              ClaimScore(c, h)[1] > 0 /\ ~ExceedsThreshold(ClaimScore(c, h))

(* every fragment of a header-like row is exactly 40px from a boundary:    *)
(* the row scores 0 and a synthesized header is returned                   *)
C20_WitnessFortyAway ==
    \E c \in DOMAIN call :
        /\ HeaderReturned(c)
        /\ call[c].header_kind = "synthesized"
        /\ \E h \in EligibleHeaders(c) :
              \A i \in 1..Len(call[c].rows[h]) :
                  \E k \in 1..Len(call[c].column_boundaries) :
                      LeftX(call[c].rows[h][i]) - call[c].column_boundaries[k] = 40

(* the fragments of a header less than 50px from boundary k *)
AlignedTo(header, boundary) ==
    {i \in 1..Len(header) :
        /\ LeftX(header[i]) - boundary < 50
        /\ boundary - LeftX(header[i]) < 50}

(* the rows strictly above the table's first row and at most 200px above *)
RowsJustAbove(c) ==
    {r \in 1..Len(call[c].rows) :
        /\ Center2(call[c].rows[r][1]) < TableY2(c)
        /\ TableY2(c) - Center2(call[c].rows[r][1]) <= 2 * 200}

(* C21: a synthesized header returned by the HeaderMatcher holds at most   *)
(* one fragment per column boundary (no two of its fragments are less than *)
(* 50px from the same boundary), so it covers at least 2 distinct columns; *)
(* all its fragments come from rows strictly above the table and at most   *)
(* 200px above it.                                                         *)
C21_SynthesizedOnePerColumn ==
    \A c \in DOMAIN call :
        (HeaderReturned(c) /\ call[c].header_kind = "synthesized") =>
            LET header == call[c].matched_header
                bounds == call[c].column_boundaries
            IN  /\ \A k \in 1..Len(bounds) : Cardinality(AlignedTo(header, bounds[k])) <= 1
                /\ Cardinality({k \in 1..Len(bounds) : AlignedTo(header, bounds[k]) # {}}) >= 2
                /\ \A i \in 1..Len(header) :
                      \E r \in RowsJustAbove(c) :
                          \E j \in 1..Len(call[c].rows[r]) : call[c].rows[r][j] = header[i]

(* what the de-duplication does give: a synthesized header has 2 fragments *)
(* or more, each less than 50px from some boundary, any two of them 30px   *)
(* apart or more, all from rows above the table and at most 200px above    *)
C21_SynthesizedThirtyApart ==
    \A c \in DOMAIN call :
        (HeaderReturned(c) /\ call[c].header_kind = "synthesized") =>
            LET header == call[c].matched_header
                bounds == call[c].column_boundaries
            IN  /\ Len(header) >= 2
                /\ \A i \in 1..Len(header) :
                      \E k \in 1..Len(bounds) : i \in AlignedTo(header, bounds[k])
                /\ \A i, j \in 1..Len(header) :
                      i # j => Abs(LeftX(header[i]) - LeftX(header[j])) >= 30
                /\ \A i \in 1..Len(header) :
                      \E r \in RowsJustAbove(c) :
                          \E j \in 1..Len(call[c].rows[r]) : call[c].rows[r][j] = header[i]

(* a synthesized header of two fragments that lie in one column *)
C21_OneColumnHeader ==
    \E c \in DOMAIN call :
        /\ HeaderReturned(c)
        /\ call[c].header_kind = "synthesized"
        /\ Len(call[c].matched_header) = 2
        /\ \E k \in 1..Len(call[c].column_boundaries) :
              Cardinality(AlignedTo(call[c].matched_header, call[c].column_boundaries[k])) = 2

(* the columns whose boundary is nearest to x *)
NearestColumns(x, bounds) ==
    {k \in 1..Len(bounds) :
        \A j \in 1..Len(bounds) : Abs(x - bounds[k]) <= Abs(x - bounds[j])}

LowestOf(S) == CHOOSE k \in S : \A j \in S : k <= j

(* the fragments of a row that go to column k, from left to right, those   *)
(* of one left edge in the row's order                                      *)
FragmentsOfColumn(row, bounds, k) ==
    SelectSeq(StableSort(row, LeftX),
              LAMBDA b : LowestOf(NearestColumns(LeftX(b), bounds)) = k)

EveryTextInked(row) == \A i \in 1..Len(row) : row[i].text # <<>>

(* C22: the GridRenderer puts each fragment in the column whose boundary   *)
(* is nearest to its left-edge x, the lower index on an exact tie, always  *)
(* a valid column; the texts of the fragments of a cell are joined from    *)
(* left to right with one space between them.                              *)
C22_NearestBoundaryLeftToRight ==
    \A c \in DOMAIN call :
        \A t \in 1..Len(call[c].tables_data) :
            \A r \in 1..Len(call[c].complete_tables[t]) :
                LET row == call[c].complete_tables[t][r]
                    bounds == call[c].boundaries_used[t]
                    cells == CellsOfRow(RowOfMarkup(call[c].tables_data[t].html_structure, r))
                IN  EveryTextInked(row) =>
                        /\ \A i \in 1..Len(row) :
                              LowestOf(NearestColumns(LeftX(row[i]), bounds)) \in 1..Len(cells)
                        /\ \A k \in 1..Len(cells) :
                              LET mine == FragmentsOfColumn(row, bounds, k)
                              IN  /\ \A i \in 1..(Len(mine) - 1) : LeftX(mine[i]) <= LeftX(mine[i + 1])
                                  /\ cells[k] = JoinSpace([i \in 1..Len(mine) |-> mine[i].text])

(* a fragment midway between two boundaries shares the cell of the lower   *)
(* one with the fragment standing on that boundary                         *)
C22_Witness ==
    \E c \in DOMAIN call :
        \E t \in 1..Len(call[c].tables_data) :
            \E r \in 1..Len(call[c].complete_tables[t]) :
                LET row == call[c].complete_tables[t][r]
                    bounds == call[c].boundaries_used[t]
                IN  /\ EveryTextInked(row)
                    /\ \E i \in 1..Len(row) :
                          /\ Cardinality(NearestColumns(LeftX(row[i]), bounds)) = 2
                          /\ Len(FragmentsOfColumn(row, bounds,
                                     LowestOf(NearestColumns(LeftX(row[i]), bounds)))) = 2

(* the tables a call returns for the same fragments in the opposite order *)
ResultReversed(c) ==
    IF call[c].text_blocks = NoneBlocks THEN <<>>
    ELSE ExtractTablesFromPage(extractor[call[c].ext], Reverse(call[c].text_blocks)).result

(* C23: the tables returned by extract_tables_from_page depend on the set  *)
(* of fragments only, not on their order in the input: the fragments in    *)
(* the opposite order, fragments of equal vertical centre or equal         *)
(* left-edge x included, give the identical table list.                    *)
C23_OrderOfFragmentsIrrelevant ==
    \A c \in DOMAIN call :
        (call[c].pc = "done" /\ call[c].via = "direct") =>
            call[c].result = ResultReversed(c)

(* two fragments of one row at the same left edge *)
SharesLeftEdge(row) ==
    \E i, j \in 1..Len(row) : i # j /\ LeftX(row[i]) = LeftX(row[j])

(* what does hold: when no row holds two fragments of one left edge and no *)
(* fault was met, the opposite order gives the identical table list        *)
C23_IrrelevantWithoutSharedEdge ==
    \A c \in DOMAIN call :
        (/\ call[c].pc = "done" /\ call[c].via = "direct" /\ ~call[c].warned
         /\ \A r \in 1..Len(call[c].rows) : ~SharesLeftEdge(call[c].rows[r])) =>
            call[c].result = ResultReversed(c)

(* a page with rows of two fragments at one left edge returned a table *)
C23_SharedEdgeRendered ==
    \E c \in DOMAIN call :
        /\ call[c].pc = "done" /\ call[c].via = "direct" /\ ~call[c].warned
        /\ \E r \in 1..Len(call[c].rows) : SharesLeftEdge(call[c].rows[r])
        /\ call[c].result # <<>>
        /\ call[c].result # ResultReversed(c)

(* the calls that have classified their rows without a fault *)
Classified(c) == Assembling(c) \/ (call[c].pc = "done" /\ ~call[c].warned)

IsDataRow(c, row) == \E j \in 1..Len(call[c].data_rows) : call[c].data_rows[j] = row

LettersIn(text) == Cardinality({k \in 1..Len(text) : IsAlpha(text[k])})

DigitsIn(text) == Cardinality({k \in 1..Len(text) : IsDigit(text[k])})

(* C24 as stated: is_financial_like(row) is true exactly when the row has  *)
(* a fragment and some fragment holds a digit or 2 or more alphabetic      *)
(* characters; a row that only holds "Page 3" is financial-like and not    *)
(* header-like.                                                            *)
C24_DigitOrTwoLetters ==
    \A c \in DOMAIN call :
        Classified(c) =>
            \A r \in 1..Len(call[c].rows) :
                LET row == call[c].rows[r]
                IN  /\ ~IsHeaderRow(row) =>
                          (IsDataRow(c, row) <=>
                              /\ Len(row) >= 1
                              /\ \E i \in 1..Len(row) :
                                    DigitsIn(row[i].text) >= 1 \/ LettersIn(row[i].text) >= 2)
                    /\ (Len(row) = 1 /\ row[1].text = tPage3) =>
                          IsDataRow(c, row) /\ ~IsHeaderRow(row)

(* C24, amended: is_financial_like(row) is true exactly when the row has a *)
(* fragment and some fragment holds a digit, or holds no digit, at least   *)
(* one alphabetic character and more than 2 characters in all; a row that  *)
(* only holds "Page 3" is financial-like and not header-like.              *)
C24_DigitOrLongText ==
    \A c \in DOMAIN call :
        Classified(c) =>
            \A r \in 1..Len(call[c].rows) :
                LET row == call[c].rows[r]
                IN  /\ ~IsHeaderRow(row) =>
                          (IsDataRow(c, row) <=>
                              /\ Len(row) >= 1
                              /\ \E i \in 1..Len(row) :
                                    \/ DigitsIn(row[i].text) >= 1
                                    \/ LettersIn(row[i].text) >= 1 /\ Len(row[i].text) >= 3)
                    /\ (Len(row) = 1 /\ row[1].text = tPage3) =>
                          IsDataRow(c, row) /\ ~IsHeaderRow(row)

(* a page with a row of one letter and two dashes among the data rows; a   *)
(* page with a row of two letters left out of them; a page whose row       *)
(* "Page 3" is a data row                                                  *)
C24_Witness ==
    \E c \in DOMAIN call :
        /\ Classified(c)
        /\ \E r \in 1..Len(call[c].rows) :
              /\ Len(call[c].rows[r]) = 1
              /\ LettersIn(call[c].rows[r][1].text) = 1
              /\ DigitsIn(call[c].rows[r][1].text) = 0
              /\ IsDataRow(c, call[c].rows[r])

C24_WitnessTwoLetters ==
    \E c \in DOMAIN call :
        /\ Classified(c)
        /\ call[c].data_rows # <<>>
        /\ \E r \in 1..Len(call[c].rows) :
              /\ Len(call[c].rows[r]) = 1
              /\ call[c].rows[r][1].text = tKg
              /\ ~IsDataRow(c, call[c].rows[r])

C24_WitnessPage3 ==
    \E c \in DOMAIN call :
        /\ Classified(c)
        /\ \E r \in 1..Len(call[c].rows) :
              /\ Len(call[c].rows[r]) = 1
              /\ call[c].rows[r][1].text = tPage3
              /\ IsDataRow(c, call[c].rows[r])

(* the 10px buckets of the left edges of the fragments of the block *)
BucketsOfBlock(c) ==
    {Bucket(LeftX(BlockFragments(c)[i])) : i \in 1..Len(BlockFragments(c))}

(* C25: any two adjacent boundaries returned by the ColumnBoundaryDetector *)
(* are at least the clustering radius apart, hence at least 50px apart,    *)
(* and every boundary is the 10px bucket of the left edge of a fragment of *)
(* the block.                                                              *)
C25_BoundariesRadiusApart ==
    \A c \in DOMAIN call :
        HasBoundaries(c) =>
            LET bounds == call[c].column_boundaries
            IN  /\ call[c].cluster_threshold >= 50
                /\ \A k \in 1..(Len(bounds) - 1) :
                      /\ bounds[k + 1] - bounds[k] >= call[c].cluster_threshold
                      /\ bounds[k + 1] - bounds[k] >= 50
                /\ \A k \in 1..Len(bounds) : bounds[k] \in BucketsOfBlock(c)

(* a block with two buckets closer than the radius, one of them not a      *)
(* boundary, and two boundaries or more                                    *)
C25_Witness ==
    \E c \in DOMAIN call :
        /\ HasBoundaries(c)
        /\ Len(call[c].column_boundaries) >= 2
        /\ \E x, y \in BucketsOfBlock(c) :
              /\ x < y
              /\ y - x < call[c].cluster_threshold
              /\ \A k \in 1..Len(call[c].column_boundaries) : call[c].column_boundaries[k] # y


(***************************************************************************)
(* Properties of the worker pool and the download_status table             *)
(***************************************************************************)
Status(d) == db.rows[d].ocr_status

(* the workers whose local variable doc is d and that are still inside     *)
(* process_single_document                                                 *)
Processing(d) ==
    {w \in Workers :
        /\ pool[w].doc = d
        /\ pool[w].pc \in {"download", "process", "upload", "mark_completed",
                            "mark_failed_inner", "cleanup"}}

(* C26: with several workers calling get_next_document concurrently, a     *)
(* document is returned to at most one of them: it is returned only while  *)
(* its ocr_status is pending or NULL, the transaction that returns it sets *)
(* ocr_status to processing and ocr_worker_id to the caller, and it is     *)
(* never returned again.                                                   *)
C26_NoDoubleClaim ==
    \A d \in Docs :
        /\ Len(db.returned[d]) <= 1
        /\ Cardinality(Processing(d)) <= 1
        /\ db.returned[d] # <<>> =>
              /\ db.returned[d][1].ocr_status \in {"pending", "NULL"}
              /\ Eligible(db.first[d])
              /\ Status(d) \in {"processing", "completed", "failed"}
              /\ db.rows[d].ocr_worker_id = db.returned[d][1].worker
        /\ \A w \in Processing(d) :
              db.returned[d] = <<[worker |-> w,
                                 ocr_status |-> db.first[d].ocr_status]>>

(* a worker holds the only eligible row locked, between its SELECT and its *)
(* commit, while the other worker's SELECT has found nothing               *)
C26_Witness ==
    \E d \in Docs, w1 \in Workers, w2 \in Workers :
        /\ w1 # w2
        /\ pool[w1].pc = "update" /\ pool[w1].selected = d
        /\ db.rows[d].locked_by = w1
        /\ FreeRows(db.rows) = {}
        /\ pool[w2].pc = "get_next_document" /\ pool[w2].doc = "None"

(* both documents claimed, one by each worker, both still in process *)
C26_BothClaimed ==
    \E d1 \in Docs, d2 \in Docs :
        /\ d1 # d2
        /\ Processing(d1) # {} /\ Processing(d2) # {}
        /\ Processing(d1) # Processing(d2)


(* the process of the worker that claimed d has left process_documents *)
Abandoned(d) ==
    \E w \in Workers : db.rows[d].ocr_worker_id = w /\ pool[w].pc = "dead"

Settled(d) == Status(d) \in {"completed", "failed"}

(* C27: every document a worker has claimed (ocr_status processing) is     *)
(* eventually marked completed or failed, whichever step of its processing *)
(* raises, as long as the worker keeps running.                            *)
C27_ClaimedEventuallySettled ==
    \A d \in Docs : (Status(d) = "processing") ~> (Settled(d) \/ Abandoned(d))

(* the same, unless an UPDATE of mark_failed for the document was rejected *)
C27_SettledUnlessUpdateLost ==
    \A d \in Docs :
        (Status(d) = "processing")
            ~> (Settled(d) \/ Abandoned(d) \/ db.update_lost[d])

(* a claimed document still reads processing while its worker, connection *)
(* open, is back at get_next_document                                      *)
C27_LeftProcessing ==
    \E d \in Docs, w \in Workers :
        /\ Status(d) = "processing"
        /\ db.rows[d].ocr_worker_id = w
        /\ pool[w].pc = "get_next_document"
        /\ pool[w].conn = "open"


(* C28: a document is marked completed only after both the text output and *)
(* the JSON output were uploaded successfully, and once mark_completed has *)
(* succeeded no later step (temp-file cleanup, the outer error handler)    *)
(* sets it to failed.                                                      *)
C28_CompletedIsFinal ==
    \A d \in Docs :
        db.completed_once[d] =>
            /\ db.uploads[d] = <<TRUE, TRUE>>
            /\ Status(d) = "completed"

(* the first half alone: mark_completed runs after two successful uploads *)
C28_CompletedAfterBothUploads ==
    \A d \in Docs :
        /\ db.completed_once[d] => db.uploads[d] = <<TRUE, TRUE>>
        /\ \A w \in Workers :
              pool[w].pc = "mark_completed" =>
                  pool[w].text_uploaded /\ pool[w].json_uploaded

(* a document that mark_completed has committed reads failed *)
C28_CompletedThenFailed ==
    \E d \in Docs : db.completed_once[d] /\ Status(d) = "failed"

(* an upload that returned False led to mark_failed, not mark_completed *)
C28_UploadRefused ==
    \E w \in Workers :
        /\ pool[w].pc = "mark_failed_inner"
        /\ ~(pool[w].text_uploaded /\ pool[w].json_uploaded)
        /\ Status(pool[w].doc) = "processing"

=============================================================================
